---- MODULE Spec2Model ----
(***************************************************************************)
(* Model of the agent orchestration engine of OS-Agent:                    *)
(*   - the per-conversation session state machine of                       *)
(*     src/agent/chat/session.py (ChatSession) on the shared state of      *)
(*     src/agent/chat/state.py (SessionState);                             *)
(*   - the reference-counted sandbox registry of                           *)
(*     src/agent/vm/registry.py (VMRegistry) and the start/stop protocol   *)
(*     of src/agent/vm/linux_vm.py (LinuxVM).                              *)
(*                                                                         *)
(* The session part follows the scheduling of asyncio: one action is the   *)
(* code a task runs between two real suspension points (an LLM request, a  *)
(* tool task, asyncio.wait, a lock that is held).  Acquiring a free        *)
(* asyncio.Lock, putting to an unbounded Queue and getting from a          *)
(* non-empty Queue do not suspend.  The registry part follows threads:     *)
(* one action is a lock-protected section or one blocking docker call.     *)
(***************************************************************************)
EXTENDS Integers, Sequences, FiniteSets, TLC

\* ------------------------------------------------------------------------
\* Bounds of the model
\* ------------------------------------------------------------------------

\* number of chat_stream calls (user prompts) submitted to the session
MaxPrompts == 2

\* number of notifications the sandbox produces for the poller
MaxNotes == 1

\* Config.max_tool_call_depth (default MAX_TOOL_CALL_DEPTH = 15), a
\* configuration option; the model runs with a small cap
max_tool_call_depth == 2

\* largest number of tool calls carried by one assistant reply (more than
\* the cap, so that a loop can reach the cap with calls left)
MaxCalls == 3

\* ------------------------------------------------------------------------
\* Session: identities
\* ------------------------------------------------------------------------

\* no task / no context / no lock holder
None == <<"none", 0>>

\* the task running ChatSession._process_prompt_queue
W == <<"worker", 0>>

\* the task running ChatSession._monitor_notifications, which calls
\* poll_notifications (as the task of _watch_return_dir also does)
N == <<"monitor", 0>>

\* the task of the caller of chat_stream for prompt p
C(p) == <<"caller", p>>

Prompts == 1..MaxPrompts

\* ChatSession._messages is kept as its projection on each turn: the
\* messages of the turn of prompt p, of the continue_stream turns of a task,
\* and the notifications, each in the order of the list
Turn(p) == <<"prompt", p>>

Notes == <<"note", 0>>

Pollers == {N}

Ctx == {W} \cup Pollers \cup {C(p) : p \in Prompts}

\* names of the tools an assistant reply can call: one registered in
\* ChatSession._tool_funcs, one that is not
TurnKeys == {Turn(p) : p \in Prompts} \cup Ctx \cup {Notes}

ToolNames == {"execute_terminal_async", "unknown_tool"}

tool_funcs == {"execute_terminal_async"}

\* the tool calls one assistant reply carries: a single call, or MaxCalls
\* calls of the tool that is not registered
ReplyCalls ==
    {<<n>> : n \in ToolNames} \cup {[i \in 1..MaxCalls |-> "unknown_tool"]}

\* the replies of the chat backend: text without tool calls, or a message
\* carrying tool calls
Replies ==
    {[content |-> TRUE, tool_calls |-> <<>>]}
    \cup {[content |-> FALSE, tool_calls |-> cs] : cs \in ReplyCalls}

\* the value of follow_reply of a task that holds no reply
NoReply == [content |-> FALSE, tool_calls |-> <<>>]

VARIABLES
    status,              \* SessionState.status
    tool_task,           \* SessionState.tool_task (the context that created the task)
    lock,                \* SessionState.lock: its holder
    current_tool_name,   \* ChatSession._current_tool_name
    messages,            \* ChatSession._messages, by turn, with the stored flag
    prompt_queue,        \* ChatSession._prompt_queue
    worker,              \* ChatSession._worker
    current,             \* the prompt the worker is processing
    notification_queue,  \* ChatSession._notification_queue
    pc,                  \* where each task is suspended
    mode,                \* which generator each task is running
    turn,                \* the prompt each task's turn belongs to (0: none)
    calls,               \* response.message.tool_calls of each task
    depth,               \* depth of _handle_tool_calls_stream of each task
    exec_task,           \* the tool task created by each context
    awaiting,            \* the tool task each context waits for
    follow_task,         \* the follow-up / user LLM task of each context
    follow_reply,        \* the reply a finished follow-up task holds
    phase,               \* where each chat_stream call is
    result_q,            \* prompts whose result queue received the end marker
    notes_posted,        \* notifications the sandbox has produced so far
    submitted,           \* history: prompts in the order they were enqueued
    dequeued,            \* history: prompts in the order the worker took them
    turn_done,           \* history: prompts whose turn reached idle
    via_tool,            \* history: prompts routed through _chat_during_tool
    llm_calls,           \* history: LLM requests issued in each task's turn
    processed,           \* history: tool calls processed in each task's turn
    lock_waiters,        \* SessionState.lock: the tasks waiting for it, in order
    failed,              \* history: the kinds of task that raised so far
    aborted,             \* history: the tasks whose turn an exception ended
    closed               \* where ChatSession.__aexit__ is


svars == <<status, tool_task, lock, current_tool_name, messages, prompt_queue,
           worker, current, notification_queue, pc, mode, turn, calls, depth,
           exec_task, awaiting, follow_task, follow_reply, phase, result_q,
           notes_posted, submitted, dequeued, turn_done, via_tool, llm_calls,
           processed, lock_waiters, failed, aborted, closed>>

\* the registry and the container runtime (the actions are further down)
VARIABLES
    vms,            \* VMRegistry._vms: the LinuxVM object of each key, or 0
    counts,         \* VMRegistry._counts (0 for a key that is absent)
    reg_lock,       \* VMRegistry._lock: the thread holding it, or 0
    vm_running,     \* LinuxVM._running of each object
    container,      \* the container runtime: the state of each named container
    persist_vms,    \* Config.persist_vms
    tpc,            \* where each thread is
    tkey,           \* the key of the call a thread is in
    tvm,            \* the LinuxVM object a thread's call works on
    pending,        \* history: acquire calls of each key not yet released
    start_failed    \* history: an acquire call raised from start() while
                    \* another call worked on the same LinuxVM object

rvars == <<vms, counts, reg_lock, vm_running, container, persist_vms,
           tpc, tkey, tvm, pending, start_failed>>

\* the team session and its helpers (the actions are further down)
VARIABLES
    team,           \* the module global _TEAM is set
    master_state,   \* TeamChatSession.master._state
    master_queue,   \* chat_stream calls queued in the master session
    master_cur,     \* the call whose turn the master is running (0: none)
    agents,         \* the keys of TeamChatSession._agents
    sub_open,       \* helpers whose sub-session holds its sandbox reference
    agent_task,     \* _MiniAgent.task of each helper
    inbox,          \* _MiniAgent.queue: the enqueue flag of each message
    wenq,           \* the enqueue flag of the message a worker is processing
    to_master,      \* TeamChatSession._to_master: the helper of each reply
    master_log,     \* helper replies appended to master._messages
    tphase,         \* where each TeamChatSession.chat_stream call is
    dsnap,          \* _destroy_agents: the helpers still to stop, by caller
    dcur,           \* _destroy_agents: the helper being stopped
    dphase,         \* _destroy_agents: where the caller is suspended
    exit_pc,        \* where TeamChatSession.__aexit__ is
    sent,           \* messages queued to helpers so far
    spawn_ret       \* the value the last spawn_agent call returned

tvars == <<team, master_state, master_queue, master_cur, agents, sub_open,
           agent_task, inbox, wenq, to_master, master_log, tphase, dsnap,
           dcur, dphase, exit_pc, sent, spawn_ret>>

\* the persistent shell (the actions are further down)
VARIABLES
    sh_stdin,       \* commands written to the shell and not yet run
    sh_queue,       \* PersistentShell._queue
    emitted,        \* history: the output of each call's command
    xpc,            \* where each execute_stream call is
    xraw,           \* the raw argument of each call
    line,           \* the local line of each call
    yielded,        \* history: the items each call yielded, concatenated
    sh_alive        \* the shell process has not exited

hvars == <<sh_stdin, sh_queue, emitted, xpc, xraw, line, yielded, sh_alive>>

\* the user's memory (the actions are further down)
VARIABLES
    memory,         \* User.memory: the stored text
    mem_input,      \* history: the text last passed to set_memory
    mem_fresh       \* history: nothing was stored since that call

mvars == <<memory, mem_input, mem_fresh>>

\* one sandbox's notification and return directories, and its exec state
VARIABLES
    utcnow,             \* datetime.utcnow() of the latest post, in microseconds
    notifications_dir,  \* LinuxVM._notifications_dir: file name -> file content
    posted,             \* history: the messages posted since the last fetch
    expected,           \* history: what `posted` was when the last fetch ran
    notes,              \* what the last fetch_notifications() returned
    last_call,          \* history: the latest call made on the sandbox
    posts_made,         \* history: the number of post_notification calls
    return_queue_dir,   \* LinuxVM._return_queue_dir: file name -> bytes
    drained,            \* history: the files fetch_returned_files deleted
    poller_queue,       \* history: every item put on ChatSession._notification_queue
    sandbox_running,    \* LinuxVM._running
    exec_result         \* how the latest execute() call ended

nvars == <<utcnow, notifications_dir, posted, expected, notes, last_call,
           posts_made, return_queue_dir, drained, poller_queue,
           sandbox_running, exec_result>>

\* the database: users, conversations and messages
VARIABLES
    db_users,          \* table User: username -> memory
    db_conversations,  \* table Conversation: the (username, session_name) rows
    db_messages,       \* table Message: the number of rows of each conversation
    db_last            \* history: the latest call, and the user row before it

dvars == <<db_users, db_conversations, db_messages, db_last>>

\* the older ChatSession of src/src/chat.py: one session object and its stored history
VARIABLES
    lg_state,              \* _SessionData.state
    lg_messages,           \* ChatSession._messages: what each message holds
    lg_history,            \* the DBMessage rows of the conversation
    lg_placeholder_saved,  \* _SessionData.placeholder_saved
    lg_pc,                 \* where the worker's turn is suspended
    lg_exec,               \* the tool task
    lg_follow,             \* the follow-up request task
    lg_reply,              \* the reply a finished follow-up task holds
    lg_depth,              \* depth of _handle_tool_calls_stream
    lg_prompts,            \* history: the prompts served so far
    lg_spins               \* history: passes of the loop over an unsupported call

lvars == <<lg_state, lg_messages, lg_history, lg_placeholder_saved, lg_pc, lg_exec, lg_follow, lg_reply, lg_depth, lg_prompts, lg_spins>>

\* PersistentShell.start: the shell process and the reader task
VARIABLES
    sp_proc,       \* PersistentShell._proc: the call that created it (0: None)
    sp_reader,     \* PersistentShell._reader: the call that created it (0: None)
    live_procs,    \* the shell processes that exist, by creating call
    live_readers,  \* the reader tasks that exist, by creating call
    sp_pc,         \* where each execute_stream / send_input / send_keys call is
    sp_stops       \* history: the number of stop() calls

pvars == <<sp_proc, sp_reader, live_procs, live_readers, sp_pc, sp_stops>>

not_session == <<rvars, tvars, hvars, mvars, nvars, dvars, lvars, pvars>>

not_registry == <<svars, tvars, hvars, mvars, nvars, dvars, lvars, pvars>>

not_team == <<svars, rvars, hvars, mvars, nvars, dvars, lvars, pvars>>

not_shell == <<svars, rvars, tvars, mvars, nvars, dvars, lvars, pvars>>

not_memory == <<svars, rvars, tvars, hvars, nvars, dvars, lvars, pvars>>

not_sandbox == <<svars, rvars, tvars, hvars, mvars, dvars, lvars, pvars>>

not_db == <<svars, rvars, tvars, hvars, mvars, nvars, lvars, pvars>>

not_legacy == <<svars, rvars, tvars, hvars, mvars, nvars, dvars, pvars>>

not_starts == <<svars, rvars, tvars, hvars, mvars, nvars, dvars, lvars>>

\* the session state as one value, so that the statements a task runs
\* without suspending compose as functions
St ==
    [status |-> status, tool_task |-> tool_task, lock |-> lock,
     current_tool_name |-> current_tool_name, messages |-> messages,
     prompt_queue |-> prompt_queue, worker |-> worker, current |-> current,
     notification_queue |-> notification_queue, pc |-> pc, mode |-> mode,
     turn |-> turn, calls |-> calls, depth |-> depth, exec_task |-> exec_task,
     awaiting |-> awaiting, follow_task |-> follow_task,
     follow_reply |-> follow_reply, phase |-> phase, result_q |-> result_q,
     notes_posted |-> notes_posted, submitted |-> submitted,
     dequeued |-> dequeued, turn_done |-> turn_done, via_tool |-> via_tool,
     llm_calls |-> llm_calls, processed |-> processed,
     lock_waiters |-> lock_waiters, failed |-> failed, aborted |-> aborted,
     closed |-> closed]

Commit(s) ==
    /\ status' = s.status
    /\ tool_task' = s.tool_task
    /\ lock' = s.lock
    /\ current_tool_name' = s.current_tool_name
    /\ messages' = s.messages
    /\ prompt_queue' = s.prompt_queue
    /\ worker' = s.worker
    /\ current' = s.current
    /\ notification_queue' = s.notification_queue
    /\ pc' = s.pc
    /\ mode' = s.mode
    /\ turn' = s.turn
    /\ calls' = s.calls
    /\ depth' = s.depth
    /\ exec_task' = s.exec_task
    /\ awaiting' = s.awaiting
    /\ follow_task' = s.follow_task
    /\ follow_reply' = s.follow_reply
    /\ phase' = s.phase
    /\ result_q' = s.result_q
    /\ notes_posted' = s.notes_posted
    /\ submitted' = s.submitted
    /\ dequeued' = s.dequeued
    /\ turn_done' = s.turn_done
    /\ via_tool' = s.via_tool
    /\ llm_calls' = s.llm_calls
    /\ processed' = s.processed
    /\ lock_waiters' = s.lock_waiters
    /\ failed' = s.failed
    /\ aborted' = s.aborted
    /\ closed' = s.closed
    /\ UNCHANGED not_session

\* ------------------------------------------------------------------------
\* Session: the statements of ChatSession, as functions on the state
\* ------------------------------------------------------------------------

\* a message of the log: its role, the tool name of a tool message, the
\* notification a notification message carries, whether it is stored, and
\* as history whether it was appended while the status was not idle
Msg(role, name, ref, stored) ==
    [role |-> role, name |-> name, ref |-> ref, stored |-> stored,
     busy |-> FALSE]

\* the turn a task is appending messages for
TurnOf(s, c) == IF s.turn[c] # 0 THEN Turn(s.turn[c]) ELSE c

\* the stored conversation of a turn: db.create_message is called for every
\* user and tool message, store_assistant_message skips an assistant
\* message that has neither content nor tool calls
history(k) == SelectSeq(messages[k], LAMBDA m : m.stored)

add_user_message(s, c) ==
    [s EXCEPT !.messages[TurnOf(s, c)] = Append(@, Msg("user", "", 0, TRUE))]

add_tool_message(s, c, name) ==
    [s EXCEPT !.messages[TurnOf(s, c)] = Append(@, Msg("tool", name, 0, TRUE))]

add_assistant_message(s, c, r) ==
    [s EXCEPT !.messages[TurnOf(s, c)] =
        Append(@, Msg("assistant", "", 0, r.content \/ r.tool_calls # <<>>))]

\* a request that is sent twice
ask_twice(s, c) == [s EXCEPT !.llm_calls[c] = @ + 2]

\* self.ask(messages): one request to the chat backend
ask(s, c) == [s EXCEPT !.llm_calls[c] = @ + 1]

\* asyncio.Lock.acquire returns at once: unlocked and nobody waiting
lock_free(s) == s.lock = None /\ s.lock_waiters = <<>>

\* asyncio.Lock.acquire suspends: the task joins the waiters
wait_lock(s, c, at) ==
    [s EXCEPT !.pc[c] = at, !.lock_waiters = Append(@, c)]

\* a turn starts in task c for prompt p (0: a continue_stream turn)
begin_turn(s, c, p, m) ==
    [s EXCEPT !.turn[c] = p, !.mode[c] = m, !.llm_calls[c] = 0,
              !.processed[c] = 0, !.depth[c] = 0, !.calls[c] = <<>>]

\* the turn of task c is over: its locals are gone
end_turn(s, c) ==
    [s EXCEPT !.turn[c] = 0, !.mode[c] = "none", !.llm_calls[c] = 0,
              !.processed[c] = 0, !.depth[c] = 0, !.calls[c] = <<>>,
              !.awaiting[c] = None, !.pc[c] = "idle"]

\* chat_stream: put the prompt, create the worker when there is none
chat_stream_put(s, p) ==
    [s EXCEPT !.prompt_queue = Append(@, p),
              !.submitted = Append(@, p),
              !.worker = IF @ = "none" THEN "created" ELSE @,
              !.phase[p] = "waiting",
              !.pc[C(p)] = "idle"]

\* _chat_during_tool, entered with the session lock held by the worker
chat_during_tool(s, p) ==
    LET s1 == begin_turn([s EXCEPT !.lock = W, !.via_tool = @ \cup {p}], W, p, "during")
        s2 == ask(add_user_message(s1, W), W)
    IN [s2 EXCEPT !.follow_task[W] = "pending",
                  !.awaiting[W] = s.tool_task,
                  !.pc[W] = "race"]

\* _generate_stream up to its first suspension
generate_stream_locked(s, p) ==
    IF s.status = "awaiting_tool" /\ s.tool_task # None
    THEN chat_during_tool(s, p)
    ELSE LET s1 == begin_turn([s EXCEPT !.status = "generating"], W, p, "gen")
             s2 == ask(add_user_message(s1, W), W)
         IN [s2 EXCEPT !.pc[W] = "ask0"]

generate_stream(s, p) ==
    IF lock_free(s) THEN generate_stream_locked(s, p)
    ELSE wait_lock(s, W, "lk_start")

\* the loop of _process_prompt_queue
process_prompt_queue(s) ==
    IF s.prompt_queue = <<>>
    THEN [s EXCEPT !.worker = "none", !.current = 0, !.pc[W] = "idle"]
    ELSE LET p == Head(s.prompt_queue)
         IN generate_stream([s EXCEPT !.prompt_queue = Tail(@),
                                      !.dequeued = Append(@, p),
                                      !.current = p], p)

\* the finally clause of _process_prompt_queue: the end marker
finish_prompt(s) ==
    process_prompt_queue([s EXCEPT !.result_q = @ \cup {s.current}])

\* what follows _deliver_notifications in the task that called it
return_from_deliver(s, c) ==
    IF c = W THEN finish_prompt(s)
    ELSE IF c \in Pollers THEN [s EXCEPT !.pc[c] = "idle"]
    ELSE IF s.phase[c[2]] = "pre" THEN chat_stream_put(s, c[2])
    ELSE [s EXCEPT !.phase[c[2]] = "finished", !.pc[c] = "idle"]

\* continue_stream up to its first suspension
continue_stream_locked(s, c) ==
    IF s.status # "idle"
    THEN return_from_deliver(s, c)
    ELSE LET s1 == begin_turn([s EXCEPT !.status = "generating"], c, 0, "cont")
         IN [ask(s1, c) EXCEPT !.pc[c] = "ask0"]

continue_stream(s, c) ==
    IF lock_free(s) THEN continue_stream_locked(s, c)
    ELSE wait_lock(s, c, "lk_cont")

RECURSIVE flush_notifications(_)
flush_notifications(s) ==
    IF s.notification_queue = <<>> THEN s
    ELSE flush_notifications(
            [s EXCEPT !.notification_queue = Tail(@),
                      !.messages[Notes] =
                          Append(@, [Msg("tool", "notification",
                                         Head(s.notification_queue), TRUE)
                                     EXCEPT !.busy = s.status # "idle"])])

\* _deliver_notifications / _deliver_notifications_stream
deliver_notifications(s, c) ==
    IF s.notification_queue = <<>>
    THEN return_from_deliver(s, c)
    ELSE continue_stream(flush_notifications(s), c)

\* what follows _handle_tool_calls_stream in the generator that called it
after_handle(s, c) ==
    CASE s.mode[c] = "gen" ->
            deliver_notifications(
                end_turn([s EXCEPT !.turn_done = @ \cup {s.turn[c]}], c), c)
      [] s.mode[c] = "cont" -> return_from_deliver(end_turn(s, c), c)

\* async with self._lock: self._state = "idle"
set_idle_locked(s, c) == after_handle([s EXCEPT !.status = "idle"], c)

set_idle(s, c) ==
    IF lock_free(s) THEN set_idle_locked(s, c) ELSE wait_lock(s, c, "lk_idle")

\* an unsupported call that also starts a follow-up request
unsupported_starts_followup(s, c, call) ==
    ask([add_tool_message(s, c, call) EXCEPT !.follow_task[c] = "pending"], c)

\* _process_tool_call for a name without handler: the tool message
\* "Unsupported tool: NAME", then return
unsupported_tool_call(s, c, call) == add_tool_message(s, c, call)

\* async with self._lock: self._state = "awaiting_tool", self._tool_task
awaiting_tool_locked(s, c) ==
    [s EXCEPT !.status = "awaiting_tool", !.tool_task = c, !.pc[c] = "race"]

\* _process_tool_call for a registered tool, up to _await_tool_and_followup
process_tool_call(s, c, call) ==
    LET s1 == ask([s EXCEPT !.exec_task[c] = "running",
                            !.awaiting[c] = c,
                            !.current_tool_name = call,
                            !.follow_task[c] = "pending"], c)
    IN IF lock_free(s1) THEN awaiting_tool_locked(s1, c)
       ELSE wait_lock(s1, c, "lk_tool")

\* the while loop of _handle_tool_calls_stream
RECURSIVE handle_tool_calls_loop(_, _)
handle_tool_calls_loop(s, c) ==
    IF s.depth[c] < max_tool_call_depth /\ s.calls[c] # <<>>
    THEN LET call == Head(s.calls[c])
             s1 == [s EXCEPT !.calls[c] = Tail(@), !.processed[c] = @ + 1]
         IN IF call \notin tool_funcs
            THEN handle_tool_calls_loop(
                    [unsupported_tool_call(s1, c, call) EXCEPT !.depth[c] = @ + 1], c)
            ELSE process_tool_call(s1, c, call)
    ELSE set_idle(s, c)

\* _handle_tool_calls_stream(messages, response, conversation, depth=0)
handle_tool_calls_stream(s, c, r) ==
    handle_tool_calls_loop([s EXCEPT !.calls[c] = r.tool_calls, !.depth[c] = 0], c)

\* an exception leaves the generators of task c: the lock held by
\* _generate_stream around _chat_during_tool is released; in the worker
\* _process_prompt_queue puts "Error: ..." and the end marker and takes the
\* next prompt, _monitor_notifications ends, a chat_stream caller gets the
\* exception. Nothing on the way resets the status or the tool handle.
abort_turn(s, c) ==
    LET s1 == end_turn([s EXCEPT !.aborted = @ \cup {c},
                                 !.follow_task[c] = "none",
                                 !.follow_reply[c] = NoReply,
                                 !.lock = IF s.mode[c] = "during" THEN None
                                          ELSE @], c)
    IN IF c = W THEN finish_prompt(s1)
       ELSE IF c \in Pollers THEN [s1 EXCEPT !.pc[c] = "dead"]
       ELSE [s1 EXCEPT !.phase[c[2]] = "failed"]

\* async with self._lock: self._state = "generating", self._tool_task =
\* None; then the next request
generating_locked(s, c) ==
    [ask([s EXCEPT !.status = "generating", !.tool_task = None,
                   !.exec_task[c] = "none", !.awaiting[c] = None], c)
        EXCEPT !.pc[c] = "ask_nxt"]

\* _await_tool_and_followup from result = await exec_task: the exception of
\* a failed tool is raised here; else the tool message, the state change
\* under the lock, the next request
tool_result(s, c) ==
    IF s.exec_task[s.awaiting[c]] = "failed" THEN abort_turn(s, c)
    ELSE
    LET s1 == add_tool_message([s EXCEPT !.current_tool_name = ""], c,
                               IF s.mode[c] = "during"
                               THEN (IF s.current_tool_name = "" THEN "tool"
                                     ELSE s.current_tool_name)
                               ELSE "execute_terminal_async")
    IN IF lock_free(s1) THEN generating_locked(s1, c)
       ELSE wait_lock(s1, c, "lk_gen")

\* ------------------------------------------------------------------------
\* Session: actions
\* ------------------------------------------------------------------------

\* the event loop runs a task that is ready (the worker that
\* asyncio.create_task has just made) before it handles a timer or the
\* completion of a request or of a tool that arrives later
LoopPolls == worker # "created"

\* a caller enters chat_stream(prompt): the notifications queued so far are
\* delivered, then the prompt is enqueued
ChatStream(p) ==
    /\ closed = "open"
    /\ phase[p] = "new"
    /\ \A q \in Prompts : q < p => phase[q] # "new"
    /\ Commit(deliver_notifications([St EXCEPT !.phase[p] = "pre"], C(p)))

\* the worker task created by chat_stream gets to run
WorkerRun ==
    /\ worker = "created"
    /\ Commit(process_prompt_queue([St EXCEPT !.worker = "running"]))

\* chat_stream has read the end marker from its result queue and delivers
\* the notifications queued meanwhile
CallerResume(p) ==
    /\ phase[p] = "waiting"
    /\ p \in result_q
    /\ Commit(deliver_notifications([St EXCEPT !.phase[p] = "post"], C(p)))

\* poll_notifications in the monitor or the return watcher: a notification
\* (or returned file) fetched from the sandbox is queued and, when the
\* session is idle with nothing to do, delivered
poll_notifications(x) ==
    /\ LoopPolls
    /\ pc[x] = "idle"
    /\ notes_posted < MaxNotes
    /\ LET s1 == [St EXCEPT !.notes_posted = @ + 1,
                            !.notification_queue = Append(@, notes_posted + 1)]
       IN Commit(IF s1.status = "idle" /\ s1.prompt_queue = <<>>
                    /\ s1.worker = "none"
                 THEN deliver_notifications(s1, x)
                 ELSE s1)

\* the chat backend answers the first request of a turn
InitialReply(c, r) ==
    /\ LoopPolls
    /\ pc[c] = "ask0"
    /\ Commit(handle_tool_calls_stream(add_assistant_message(St, c, r), c, r))

\* _handle_tool_calls_stream when the reply nxt arrives: response = nxt
\* replaces the message whose calls were being processed, depth += 1, and
\* the loop goes on with the calls of nxt
next_reply(s, c, r) ==
    handle_tool_calls_loop(
        [add_assistant_message(s, c, r) EXCEPT !.calls[c] = r.tool_calls,
                                               !.depth[c] = @ + 1], c)

\* the chat backend answers the request issued after a tool result
NextReply(c, r) ==
    /\ LoopPolls
    /\ pc[c] = "ask_nxt"
    /\ Commit(next_reply(St, c, r))

\* the speculative follow-up (or interleaved user) request completes
FollowupDone(c, r) ==
    /\ LoopPolls
    /\ follow_task[c] = "pending"
    /\ Commit([St EXCEPT !.follow_task[c] = "done", !.follow_reply[c] = r])

\* the tool task created by context c finishes
ToolDone(c) ==
    /\ LoopPolls
    /\ exec_task[c] = "running"
    /\ Commit([St EXCEPT !.exec_task[c] = "done"])

\* _await_tool_and_followup resumes from asyncio.wait(FIRST_COMPLETED)
await_tool_and_followup(c) ==
    /\ pc[c] = "race"
    /\ \/ exec_task[awaiting[c]] \in {"done", "failed"}
       \/ follow_task[c] \in {"done", "failed"}
    /\ Commit(
         IF follow_task[c] = "failed" THEN abort_turn(St, c)
         ELSE IF exec_task[awaiting[c]] \in {"done", "failed"}
         THEN IF follow_task[c] = "pending"
              THEN [St EXCEPT !.follow_task[c] = "cancelled", !.pc[c] = "tw_cancel"]
              ELSE tool_result([St EXCEPT !.follow_task[c] = "none",
                                          !.follow_reply[c] = NoReply], c)
         ELSE LET r == follow_reply[c]
                  s1 == add_assistant_message(
                            [St EXCEPT !.follow_task[c] = "none",
                                       !.follow_reply[c] = NoReply], c, r)
              IN IF mode[c] = "during"
                 THEN handle_tool_calls_stream(s1, c, r)
                 ELSE [s1 EXCEPT !.calls[c] = r.tool_calls, !.pc[c] = "fw_tool"])

\* the cancelled follow-up task has finished: await follow_task returns
CancelAck(c) ==
    /\ pc[c] = "tw_cancel"
    /\ Commit(tool_result([St EXCEPT !.follow_task[c] = "none"], c))

\* the follow-up won the race and the tool has now finished
ToolAwaited(c) ==
    /\ pc[c] = "fw_tool"
    /\ exec_task[awaiting[c]] \in {"done", "failed"}
    /\ Commit(tool_result(St, c))

\* requests and tools that raise in one run
MaxErrors == 1

\* the chat backend raises on the request task c is awaiting (the first
\* request of a turn or the one after a tool result)
LLMFails(c) ==
    /\ LoopPolls
    /\ Len(failed) < MaxErrors
    /\ pc[c] \in {"ask0", "ask_nxt"}
    /\ Commit(abort_turn([St EXCEPT !.failed = Append(@, "llm")], c))

\* the chat backend raises in the follow-up (or interleaved user) task
FollowupFails(c) ==
    /\ LoopPolls
    /\ Len(failed) < MaxErrors
    /\ follow_task[c] = "pending"
    /\ Commit([St EXCEPT !.follow_task[c] = "failed",
                         !.failed = Append(@, "llm")])

\* the tool handler raises: _run_tool_async has no except clause, so the
\* tool task ends with the exception
ToolFails(c) ==
    /\ LoopPolls
    /\ Len(failed) < MaxErrors
    /\ exec_task[c] = "running"
    /\ Commit([St EXCEPT !.exec_task[c] = "failed",
                         !.failed = Append(@, "tool")])

\* the lock was released and its first waiter gets it
LockAcquired(c) ==
    /\ lock = None
    /\ lock_waiters # <<>>
    /\ c = Head(lock_waiters)
    /\ LET s == [St EXCEPT !.lock_waiters = Tail(@)]
       IN Commit(CASE pc[c] = "lk_start" -> generate_stream_locked(s, current)
                   [] pc[c] = "lk_cont" -> continue_stream_locked(s, c)
                   [] pc[c] = "lk_idle" -> set_idle_locked(s, c)
                   [] pc[c] = "lk_tool" -> awaiting_tool_locked(s, c)
                   [] pc[c] = "lk_gen" -> generating_locked(s, c))

\* task.cancel() on the monitor: a monitor that sleeps ends; one inside a
\* continue_stream turn gets CancelledError at its await, which ends the
\* turn where it is (cancelling the tool task when that is what it awaits),
\* except at the await under suppress(CancelledError), where the monitor
\* goes on
cancel_monitor(s, x) ==
    IF s.pc[x] = "tw_cancel" THEN s
    ELSE LET s1 == [s EXCEPT
                      !.exec_task[x] = IF s.pc[x] = "fw_tool" THEN "cancelled"
                                       ELSE @,
                      !.lock_waiters = SelectSeq(@, LAMBDA c : c # x)]
         IN [end_turn(s1, x) EXCEPT !.pc[x] = "dead"]

\* ChatSession.__aexit__: the notification task is cancelled and awaited.
\* The prompt worker, the request and tool tasks, the status and the tool
\* handle are not touched.
aexit ==
    /\ LoopPolls
    /\ closed = "open"
    /\ Commit([cancel_monitor(St, N) EXCEPT
                 !.closed = IF pc[N] = "tw_cancel" THEN "closing" ELSE "closed"])

SInit ==
    /\ status = "idle"
    /\ tool_task = None
    /\ lock = None
    /\ current_tool_name = ""
    /\ messages = [k \in TurnKeys |-> <<>>]
    /\ prompt_queue = <<>>
    /\ worker = "none"
    /\ current = 0
    /\ notification_queue = <<>>
    /\ pc = [c \in Ctx |-> "idle"]
    /\ mode = [c \in Ctx |-> "none"]
    /\ turn = [c \in Ctx |-> 0]
    /\ calls = [c \in Ctx |-> <<>>]
    /\ depth = [c \in Ctx |-> 0]
    /\ exec_task = [c \in Ctx |-> "none"]
    /\ awaiting = [c \in Ctx |-> None]
    /\ follow_task = [c \in Ctx |-> "none"]
    /\ follow_reply = [c \in Ctx |-> NoReply]
    /\ phase = [p \in Prompts |-> "new"]
    /\ result_q = {}
    /\ notes_posted = 0
    /\ submitted = <<>>
    /\ dequeued = <<>>
    /\ turn_done = {}
    /\ via_tool = {}
    /\ llm_calls = [c \in Ctx |-> 0]
    /\ processed = [c \in Ctx |-> 0]
    /\ lock_waiters = <<>>
    /\ failed = <<>>
    /\ aborted = {}
    /\ closed = "open"


SNext ==
    \/ \E p \in Prompts : ChatStream(p)
    \/ WorkerRun
    \/ \E p \in Prompts : CallerResume(p)
    \/ \E x \in Pollers : poll_notifications(x)
    \/ \E c \in Ctx, r \in Replies : InitialReply(c, r)
    \/ \E c \in Ctx, r \in Replies : NextReply(c, r)
    \/ \E c \in Ctx, r \in Replies : FollowupDone(c, r)
    \/ \E c \in Ctx : ToolDone(c)
    \/ \E c \in Ctx : await_tool_and_followup(c)
    \/ \E c \in Ctx : CancelAck(c)
    \/ \E c \in Ctx : ToolAwaited(c)

\* ------------------------------------------------------------------------
\* Registry: VMRegistry and LinuxVM, called from parallel threads
\* ------------------------------------------------------------------------

\* threads calling VMRegistry.acquire / release
MaxThreads == 2

\* acquire calls are issued while the count of the key is below this
MaxCount == 3

Threads == 1..MaxThreads

\* (username, session) keys; the sessions of one user
Keys == {<<"u", "s1">>, <<"u", "s2">>}

Users == {k[1] : k \in Keys}

\* LinuxVM objects; 0 stands for no object
Objs == 1..(Cardinality(Keys) + MaxThreads)

\* LinuxVM.__init__: the container name comes from the user name only
\* (vm_container_template.format(user=_sanitize(username)))
ContainerOf(k) == k[1]

vars == <<svars, rvars, tvars, hvars, mvars, nvars, dvars, lvars, pvars>>

RInit ==
    /\ vms = [k \in Keys |-> 0]
    /\ counts = [k \in Keys |-> 0]
    /\ reg_lock = 0
    /\ vm_running = [o \in Objs |-> FALSE]
    /\ container \in [Users -> {"absent", "stopped", "running"}]
    /\ persist_vms \in BOOLEAN
    /\ tpc = [t \in Threads |-> "idle"]
    /\ tkey = [t \in Threads |-> <<"u", "s1">>]
    /\ tvm = [t \in Threads |-> 0]
    /\ pending = [k \in Keys |-> 0]
    /\ start_failed = FALSE

\* the registry before any call, with the default configuration and no
\* container left by an earlier run
RQuiet ==
    /\ RInit
    /\ persist_vms = TRUE
    /\ container = [u \in Users |-> "absent"]

NoKey == <<"u", "s1">>

\* a LinuxVM object no key and no call refers to
FreshObj ==
    CHOOSE o \in Objs :
        /\ \A k \in Keys : vms[k] # o
        /\ \A t \in Threads : tvm[t] # o
        /\ \A o2 \in Objs :
              (/\ \A k \in Keys : vms[k] # o2
               /\ \A t \in Threads : tvm[t] # o2) => o <= o2

\* the count is reset on every acquire, not only for a new key
acquire_count_reset(vm, count) == 1

\* cls._counts[key] after the locked section of acquire
acquire_count(vm, count) == IF vm = 0 THEN 1 ELSE count + 1

\* VMRegistry.acquire, the section under cls._lock
acquire(t, k) ==
    /\ UNCHANGED not_registry
    /\ tpc[t] = "idle"
    /\ reg_lock = 0
    /\ counts[k] < MaxCount
    /\ pending[k] < MaxCount
    /\ LET o == IF vms[k] = 0 THEN FreshObj ELSE vms[k]
       IN /\ vms' = [vms EXCEPT ![k] = o]
          /\ vm_running' = IF vms[k] = 0 THEN [vm_running EXCEPT ![o] = FALSE]
                           ELSE vm_running
          /\ counts' = [counts EXCEPT ![k] = acquire_count(vms[k], counts[k])]
          /\ tvm' = [tvm EXCEPT ![t] = o]
    /\ tkey' = [tkey EXCEPT ![t] = k]
    /\ tpc' = [tpc EXCEPT ![t] = "start"]
    /\ pending' = [pending EXCEPT ![k] = @ + 1]
    /\ UNCHANGED <<reg_lock, container, persist_vms, start_failed>>

\* LinuxVM.start: if self._running: return
start(t) ==
    /\ UNCHANGED not_registry
    /\ tpc[t] = "start"
    /\ tpc' = [tpc EXCEPT ![t] = IF vm_running[tvm[t]] THEN "holding" ELSE "inspect"]
    /\ UNCHANGED <<vms, counts, reg_lock, vm_running, container, persist_vms,
                   tkey, tvm, pending, start_failed>>

\* LinuxVM.start: docker inspect -f {{.State.Running}} name
docker_inspect(t) ==
    /\ UNCHANGED not_registry
    /\ tpc[t] = "inspect"
    /\ LET st == container[ContainerOf(tkey[t])]
       IN tpc' = [tpc EXCEPT ![t] =
                    CASE st = "absent" -> "run"
                      [] st = "running" -> "mark"
                      [] st = "stopped" -> "docker_start"]
    /\ UNCHANGED <<vms, counts, reg_lock, vm_running, container, persist_vms,
                   tkey, tvm, pending, start_failed>>

\* start() raises RuntimeError and acquire with it; the callers call
\* acquire before their try block, so no release follows
start_raises(t) ==
    /\ tpc' = [tpc EXCEPT ![t] = "idle"]
    /\ tvm' = [tvm EXCEPT ![t] = 0]
    /\ tkey' = [tkey EXCEPT ![t] = NoKey]
    /\ start_failed' =
         (start_failed \/ \E t2 \in Threads \ {t} : tvm[t2] = tvm[t])
    /\ UNCHANGED <<vms, counts, reg_lock, vm_running, container, persist_vms,
                   pending>>

\* LinuxVM.start: docker start name (check=True)
docker_start(t) ==
    /\ UNCHANGED not_registry
    /\ tpc[t] = "docker_start"
    /\ IF container[ContainerOf(tkey[t])] = "absent"
       THEN start_raises(t)
       ELSE /\ container' = [container EXCEPT ![ContainerOf(tkey[t])] = "running"]
            /\ tpc' = [tpc EXCEPT ![t] = "mark"]
            /\ UNCHANGED <<vms, counts, reg_lock, vm_running, persist_vms,
                           tkey, tvm, pending, start_failed>>

\* LinuxVM.start: docker pull (check=False), docker run -d --name name
\* (check=True), which fails when a container of that name exists
docker_run(t) ==
    /\ UNCHANGED not_registry
    /\ tpc[t] = "run"
    /\ IF container[ContainerOf(tkey[t])] # "absent"
       THEN start_raises(t)
       ELSE /\ container' = [container EXCEPT ![ContainerOf(tkey[t])] = "running"]
            /\ tpc' = [tpc EXCEPT ![t] = "mark"]
            /\ UNCHANGED <<vms, counts, reg_lock, vm_running, persist_vms,
                           tkey, tvm, pending, start_failed>>

\* LinuxVM.start: self._running = True; acquire returns the object
mark_running(t) ==
    /\ UNCHANGED not_registry
    /\ tpc[t] = "mark"
    /\ vm_running' = [vm_running EXCEPT ![tvm[t]] = TRUE]
    /\ tpc' = [tpc EXCEPT ![t] = "holding"]
    /\ UNCHANGED <<vms, counts, reg_lock, container, persist_vms, tkey, tvm,
                   pending, start_failed>>

\* VMRegistry.release under cls._lock, up to the docker call of vm.stop();
\* LinuxVM.stop removes the container (docker rm -f) when persist_vms is
\* off and returns at once when the object is not running
release_locked(t, k) ==
    /\ reg_lock = 0
    /\ IF vms[k] = 0
       THEN /\ tpc' = [tpc EXCEPT ![t] = "idle"]
            /\ UNCHANGED <<vms, counts, reg_lock, vm_running, container>>
       ELSE IF counts[k] - 1 > 0
       THEN /\ counts' = [counts EXCEPT ![k] = @ - 1]
            /\ tpc' = [tpc EXCEPT ![t] = "idle"]
            /\ UNCHANGED <<vms, reg_lock, vm_running, container>>
       ELSE IF persist_vms
       THEN /\ counts' = [counts EXCEPT ![k] = 0]
            /\ tpc' = [tpc EXCEPT ![t] = "idle"]
            /\ UNCHANGED <<vms, reg_lock, vm_running, container>>
       ELSE IF ~vm_running[vms[k]]
       THEN /\ counts' = [counts EXCEPT ![k] = 0]
            /\ vms' = [vms EXCEPT ![k] = 0]
            /\ tpc' = [tpc EXCEPT ![t] = "idle"]
            /\ UNCHANGED <<reg_lock, vm_running, container>>
       ELSE /\ counts' = [counts EXCEPT ![k] = 0]
            /\ container' = [container EXCEPT ![ContainerOf(k)] = "absent"]
            /\ reg_lock' = t
            /\ tpc' = [tpc EXCEPT ![t] = "stopping"]
            /\ UNCHANGED <<vms, vm_running>>

\* VMRegistry.release by the thread that acquired the key
release(t) ==
    /\ UNCHANGED not_registry
    /\ tpc[t] = "holding"
    /\ release_locked(t, tkey[t])
    /\ pending' = [pending EXCEPT ![tkey[t]] = @ - 1]
    /\ tvm' = [tvm EXCEPT ![t] = IF tpc'[t] = "idle" THEN 0 ELSE vms[tkey[t]]]
    /\ tkey' = [tkey EXCEPT ![t] = IF tpc'[t] = "idle" THEN NoKey ELSE @]
    /\ UNCHANGED <<persist_vms, start_failed>>

\* the end of vm.stop() and of release: self._running = False, the key is
\* deleted, the lock is released
release_stopped(t) ==
    /\ UNCHANGED not_registry
    /\ tpc[t] = "stopping"
    /\ vm_running' = [vm_running EXCEPT ![tvm[t]] = FALSE]
    /\ vms' = [vms EXCEPT ![tkey[t]] = 0]
    /\ reg_lock' = 0
    /\ tpc' = [tpc EXCEPT ![t] = "idle"]
    /\ tvm' = [tvm EXCEPT ![t] = 0]
    /\ tkey' = [tkey EXCEPT ![t] = NoKey]
    /\ UNCHANGED <<counts, container, persist_vms, pending, start_failed>>

\* a release that no acquire of the caller precedes
unmatched_release(t, k) ==
    /\ UNCHANGED not_registry
    /\ tpc[t] = "idle"
    /\ release_locked(t, k)
    /\ tvm' = [tvm EXCEPT ![t] = IF tpc'[t] = "idle" THEN 0 ELSE vms[k]]
    /\ tkey' = [tkey EXCEPT ![t] = IF tpc'[t] = "idle" THEN NoKey ELSE k]
    /\ UNCHANGED <<persist_vms, pending, start_failed>>

\* VMRegistry.shutdown_all
shutdown_all ==
    /\ UNCHANGED not_registry
    /\ reg_lock = 0
    /\ \E k \in Keys : vms[k] # 0
    /\ LET stopped == {vms[k] : k \in {j \in Keys : vms[j] # 0 /\ ~persist_vms
                                                    /\ vm_running[vms[j]]}}
           removed == {ContainerOf(k) : k \in {j \in Keys : vms[j] # 0 /\ ~persist_vms
                                                    /\ vm_running[vms[j]]}}
       IN /\ vm_running' = [o \in Objs |-> vm_running[o] /\ o \notin stopped]
          /\ container' = [u \in Users |-> IF u \in removed THEN "absent"
                                            ELSE container[u]]
    /\ vms' = [k \in Keys |-> 0]
    /\ counts' = [k \in Keys |-> 0]
    /\ UNCHANGED <<reg_lock, persist_vms, tpc, tkey, tvm, pending, start_failed>>

RNext ==
    \/ \E t \in Threads, k \in Keys : acquire(t, k)
    \/ \E t \in Threads : start(t)
    \/ \E t \in Threads : docker_inspect(t)
    \/ \E t \in Threads : docker_start(t)
    \/ \E t \in Threads : docker_run(t)
    \/ \E t \in Threads : mark_running(t)
    \/ \E t \in Threads : release(t)
    \/ \E t \in Threads : release_stopped(t)

\* the registry under matched acquire / release calls of parallel threads
\* ------------------------------------------------------------------------
\* Team: TeamChatSession and its helpers (_MiniAgent)
\* ------------------------------------------------------------------------

\* Config.max_mini_agents
max_mini_agents == 2

\* TeamChatSession.chat_stream calls
MaxTeamCalls == 2

\* messages queued to helpers in one run
MaxAgentMsgs == 2

\* the names the master may give to helpers: one more than the cap
AgentNames ==
    {<<"a", "b", "c", "d", "e">>[i] : i \in 1..(max_mini_agents + 1)}

TeamCalls == 1..MaxTeamCalls

\* the callers of _destroy_agents: the chat_stream calls and __aexit__ (0)
Destroyers == TeamCalls \cup {0}

TInit ==
    /\ team = TRUE
    /\ master_state = "idle"
    /\ master_queue = <<>>
    /\ master_cur = 0
    /\ agents = {}
    /\ sub_open = {}
    /\ agent_task = [n \in AgentNames |-> "none"]
    /\ inbox = [n \in AgentNames |-> <<>>]
    /\ wenq = [n \in AgentNames |-> FALSE]
    /\ to_master = <<>>
    /\ master_log = <<>>
    /\ tphase = [k \in TeamCalls |-> "new"]
    /\ dsnap = [d \in Destroyers |-> {}]
    /\ dcur = [d \in Destroyers |-> ""]
    /\ dphase = [d \in Destroyers |-> "none"]
    /\ exit_pc = "none"
    /\ sent = 0
    /\ spawn_ret = ""

\* _deliver_agent_messages: every queued helper reply is appended to the
\* master's log; busy records that the master was not idle at that moment
RECURSIVE deliver_agent_messages(_, _, _)
deliver_agent_messages(q, log, st) ==
    IF q = <<>> THEN log
    ELSE deliver_agent_messages(Tail(q),
                                Append(log, [name |-> Head(q), busy |-> st # "idle"]),
                                st)

\* spawn_agent admitting a helper while the map is over the cap
spawn_agent_over(ag, open, name) ==
    IF name \in ag
    THEN [agents |-> ag, open |-> open, ret |-> "Agent already exists"]
    ELSE IF Cardinality(ag) > max_mini_agents
    THEN [agents |-> ag, open |-> open, ret |-> "Agent limit reached"]
    ELSE [agents |-> ag \cup {name}, open |-> open \cup {name}, ret |-> "Spawned"]

\* TeamChatSession.spawn_agent: the helper map, the open sub-sessions and the
\* returned text
spawn_agent(ag, open, name) ==
    IF name \in ag
    THEN [agents |-> ag, open |-> open, ret |-> "Agent already exists"]
    ELSE IF Cardinality(ag) >= max_mini_agents
    THEN [agents |-> ag, open |-> open, ret |-> "Agent limit reached"]
    ELSE [agents |-> ag \cup {name}, open |-> open \cup {name}, ret |-> "Spawned"]

\* TeamChatSession.chat_stream up to the suspension in master.chat_stream:
\* the helper replies are delivered, the prompt is queued in the master
team_chat_stream(k) ==
    /\ exit_pc = "none"
    /\ tphase[k] = "new"
    /\ master_log' = deliver_agent_messages(to_master, master_log, master_state)
    /\ to_master' = <<>>
    /\ master_queue' = Append(master_queue, k)
    /\ tphase' = [tphase EXCEPT ![k] = "in_master"]
    /\ UNCHANGED <<team, master_state, master_cur, agents, sub_open, agent_task,
                   inbox, wenq, dsnap, dcur, dphase, exit_pc, sent, spawn_ret>>
    /\ UNCHANGED not_team

\* the master's worker starts the turn of the next queued prompt
master_begin ==
    /\ master_state = "idle"
    /\ master_cur = 0
    /\ master_queue # <<>>
    /\ master_state' = "generating"
    /\ master_cur' = Head(master_queue)
    /\ master_queue' = Tail(master_queue)
    /\ UNCHANGED <<team, agents, sub_open, agent_task, inbox, wenq, to_master,
                   master_log, tphase, dsnap, dcur, dphase, exit_pc, sent,
                   spawn_ret>>
    /\ UNCHANGED not_team

\* the master starts a tool task
master_tool_start ==
    /\ master_state = "generating"
    /\ master_state' = "awaiting_tool"
    /\ UNCHANGED <<team, master_queue, master_cur, agents, sub_open, agent_task,
                   inbox, wenq, to_master, master_log, tphase, dsnap, dcur,
                   dphase, exit_pc, sent, spawn_ret>>
    /\ UNCHANGED not_team

\* the master has the tool result and asks the model again
master_tool_end ==
    /\ master_state = "awaiting_tool"
    /\ master_state' = "generating"
    /\ UNCHANGED <<team, master_queue, master_cur, agents, sub_open, agent_task,
                   inbox, wenq, to_master, master_log, tphase, dsnap, dcur,
                   dphase, exit_pc, sent, spawn_ret>>
    /\ UNCHANGED not_team

\* the master's turn ends: idle, and the end marker for the caller
master_end ==
    /\ master_state = "generating"
    /\ master_state' = "idle"
    /\ master_cur' = 0
    /\ tphase' = [tphase EXCEPT ![master_cur] = "ended"]
    /\ UNCHANGED <<team, master_queue, agents, sub_open, agent_task, inbox,
                   wenq, to_master, master_log, dsnap, dcur, dphase, exit_pc,
                   sent, spawn_ret>>
    /\ UNCHANGED not_team

\* the tool spawn_agent, called by the master's tool task
spawn_agent_tool(n) ==
    /\ master_state = "awaiting_tool"
    /\ IF ~team
       THEN /\ spawn_ret' = "No active team"
            /\ UNCHANGED <<agents, sub_open>>
       ELSE LET r == spawn_agent(agents, sub_open, n)
            IN /\ agents' = r.agents
               /\ sub_open' = r.open
               /\ spawn_ret' = r.ret
    /\ UNCHANGED <<team, master_state, master_queue, master_cur, agent_task,
                   inbox, wenq, to_master, master_log, tphase, dsnap, dcur,
                   dphase, exit_pc, sent>>
    /\ UNCHANGED not_team

\* _MiniAgent.queue_message up to the suspension on the future
queue_message(n, enqueue) ==
    /\ inbox' = [inbox EXCEPT ![n] = Append(@, enqueue)]
    /\ agent_task' = [agent_task EXCEPT
                        ![n] = IF @ = "none" THEN "created" ELSE @]
    /\ sent' = sent + 1

\* the tool send_to_agent, called by the master's tool task
send_to_agent(n) ==
    /\ master_state = "awaiting_tool"
    /\ sent < MaxAgentMsgs
    /\ team
    /\ n \in agents
    /\ queue_message(n, FALSE)
    /\ UNCHANGED <<team, master_state, master_queue, master_cur, agents,
                   sub_open, wenq, to_master, master_log, tphase, dsnap, dcur,
                   dphase, exit_pc, spawn_ret>>
    /\ UNCHANGED not_team

\* TeamChatSession.queue_message_to_agent called with its default enqueue
queue_message_to_agent(n) ==
    /\ exit_pc = "none"
    /\ sent < MaxAgentMsgs
    /\ n \in agents
    /\ queue_message(n, TRUE)
    /\ UNCHANGED <<team, master_state, master_queue, master_cur, agents,
                   sub_open, wenq, to_master, master_log, tphase, dsnap, dcur,
                   dphase, exit_pc, spawn_ret>>
    /\ UNCHANGED not_team

\* _MiniAgent._process from its start to the first suspension in
\* continue_stream
process_start(n) ==
    /\ agent_task[n] = "created"
    /\ agent_task' = [agent_task EXCEPT ![n] = "running"]
    /\ wenq' = [wenq EXCEPT ![n] = Head(inbox[n])]
    /\ inbox' = [inbox EXCEPT ![n] = Tail(@)]
    /\ UNCHANGED <<team, master_state, master_queue, master_cur, agents,
                   sub_open, to_master, master_log, tphase, dsnap, dcur, dphase,
                   exit_pc, sent, spawn_ret>>
    /\ UNCHANGED not_team

\* _MiniAgent._process from the end of continue_stream: the reply is queued
\* for the master, then the next message, or the delivery if the master is
\* idle, and the end of the task
process(n, nonempty) ==
    /\ agent_task[n] = "running"
    /\ LET q == IF wenq[n] /\ nonempty THEN Append(to_master, n) ELSE to_master
       IN IF inbox[n] # <<>>
          THEN /\ wenq' = [wenq EXCEPT ![n] = Head(inbox[n])]
               /\ inbox' = [inbox EXCEPT ![n] = Tail(@)]
               /\ to_master' = q
               /\ UNCHANGED <<agent_task, master_log>>
          ELSE /\ agent_task' = [agent_task EXCEPT ![n] = "none"]
               /\ wenq' = [wenq EXCEPT ![n] = FALSE]
               /\ IF master_state = "idle"
                  THEN /\ master_log' =
                             deliver_agent_messages(q, master_log, master_state)
                       /\ to_master' = <<>>
                  ELSE /\ to_master' = q
                       /\ UNCHANGED master_log
               /\ UNCHANGED inbox
    /\ UNCHANGED <<team, master_state, master_queue, master_cur, agents,
                   sub_open, tphase, dsnap, dcur, dphase, exit_pc, sent,
                   spawn_ret>>
    /\ UNCHANGED not_team

\* TeamChatSession.chat_stream after the master's end marker: the helper
\* replies are delivered and _destroy_agents takes its snapshot
team_chat_end(k) ==
    /\ exit_pc = "none"
    /\ tphase[k] = "ended"
    /\ master_log' = deliver_agent_messages(to_master, master_log, master_state)
    /\ to_master' = <<>>
    /\ dsnap' = [dsnap EXCEPT ![k] = agents]
    /\ dphase' = [dphase EXCEPT ![k] = IF agents = {} THEN "none" ELSE "pick"]
    /\ tphase' = [tphase EXCEPT
                    ![k] = IF agents = {} THEN "done" ELSE "destroying"]
    /\ UNCHANGED <<team, master_state, master_queue, master_cur, agents,
                   sub_open, agent_task, inbox, wenq, dcur, exit_pc, sent,
                   spawn_ret>>
    /\ UNCHANGED not_team

\* _MiniAgent.stop: a task that is not done is cancelled
stop(t) ==
    CASE t = "created" -> "cancel_created"
      [] t = "running" -> "cancel_running"
      [] OTHER -> t

\* _MiniAgent.stop ... session.__aexit__: the sandbox reference is released
release_sub(d, n) ==
    /\ sub_open' = sub_open \ {n}
    /\ dphase' = [dphase EXCEPT ![d] = "closing"]

\* _destroy_agents takes the next helper of its snapshot and calls stop():
\* the task is cancelled and awaited, or the sub-session is closed at once
stop_begin(d) ==
    /\ dphase[d] = "pick"
    /\ \E n \in dsnap[d] :
         /\ dcur' = [dcur EXCEPT ![d] = n]
         /\ agent_task' = [agent_task EXCEPT ![n] = stop(@)]
         /\ IF stop(agent_task[n]) \in {"cancel_created", "cancel_running"}
            THEN /\ dphase' = [dphase EXCEPT ![d] = "await_task"]
                 /\ UNCHANGED sub_open
            ELSE release_sub(d, n)
    /\ UNCHANGED <<team, master_state, master_queue, master_cur, agents, inbox,
                   wenq, to_master, master_log, tphase, dsnap, exit_pc, sent,
                   spawn_ret>>
    /\ UNCHANGED not_team

\* the CancelledError reaches _process: finally, task = None
worker_cancelled(n) ==
    /\ agent_task[n] \in {"cancel_created", "cancel_running"}
    /\ agent_task' = [agent_task EXCEPT ![n] = "none"]
    /\ wenq' = [wenq EXCEPT ![n] = FALSE]
    /\ UNCHANGED <<team, master_state, master_queue, master_cur, agents,
                   sub_open, inbox, to_master, master_log, tphase, dsnap, dcur,
                   dphase, exit_pc, sent, spawn_ret>>
    /\ UNCHANGED not_team

\* the CancelledError is raised at the await inside suppress(CancelledError)
\* of the sub-session's _await_tool_and_followup: the worker goes on
worker_goes_on(n) ==
    /\ agent_task[n] = "cancel_running"
    /\ agent_task' = [agent_task EXCEPT ![n] = "running"]
    /\ UNCHANGED <<team, master_state, master_queue, master_cur, agents,
                   sub_open, inbox, wenq, to_master, master_log, tphase, dsnap,
                   dcur, dphase, exit_pc, sent, spawn_ret>>
    /\ UNCHANGED not_team

\* stop() resumes from await self.task and closes the sub-session
stop_release(d) ==
    /\ dphase[d] = "await_task"
    /\ agent_task[dcur[d]] = "none"
    /\ release_sub(d, dcur[d])
    /\ UNCHANGED <<team, master_state, master_queue, master_cur, agents,
                   agent_task, inbox, wenq, to_master, master_log, tphase,
                   dsnap, dcur, exit_pc, sent, spawn_ret>>
    /\ UNCHANGED not_team

\* stop() has returned: the helper is popped; after the last one the caller
\* goes on (chat_stream ends, __aexit__ closes the master)
stop_pop(d) ==
    /\ dphase[d] = "closing"
    /\ agents' = agents \ {dcur[d]}
    /\ dsnap' = [dsnap EXCEPT ![d] = @ \ {dcur[d]}]
    /\ dcur' = [dcur EXCEPT ![d] = ""]
    /\ LET last == dsnap[d] \ {dcur[d]} = {}
       IN /\ dphase' = [dphase EXCEPT ![d] = IF last THEN "none" ELSE "pick"]
          /\ tphase' = IF last /\ d # 0
                       THEN [tphase EXCEPT ![d] = "done"] ELSE tphase
          /\ exit_pc' = IF last /\ d = 0 THEN "master" ELSE exit_pc
    /\ UNCHANGED <<team, master_state, master_queue, master_cur, sub_open,
                   agent_task, inbox, wenq, to_master, master_log, sent,
                   spawn_ret>>
    /\ UNCHANGED not_team

\* TeamChatSession.__aexit__: set_team(None) and the snapshot of
\* _destroy_agents
team_aexit ==
    /\ exit_pc = "none"
    /\ \A k \in TeamCalls : tphase[k] # "destroying"
    /\ team' = FALSE
    /\ dsnap' = [dsnap EXCEPT ![0] = agents]
    /\ dphase' = [dphase EXCEPT ![0] = IF agents = {} THEN "none" ELSE "pick"]
    /\ exit_pc' = IF agents = {} THEN "master" ELSE "destroying"
    /\ UNCHANGED <<master_state, master_queue, master_cur, agents, sub_open,
                   agent_task, inbox, wenq, to_master, master_log, tphase, dcur,
                   sent, spawn_ret>>
    /\ UNCHANGED not_team

\* TeamChatSession.__aexit__: master.__aexit__ has returned
master_aexit ==
    /\ exit_pc = "master"
    /\ exit_pc' = "done"
    /\ UNCHANGED <<team, master_state, master_queue, master_cur, agents,
                   sub_open, agent_task, inbox, wenq, to_master, master_log,
                   tphase, dsnap, dcur, dphase, sent, spawn_ret>>
    /\ UNCHANGED not_team

TNext ==
    \/ \E k \in TeamCalls : team_chat_stream(k)
    \/ master_begin
    \/ master_tool_start
    \/ master_tool_end
    \/ master_end
    \/ \E n \in AgentNames : spawn_agent_tool(n)
    \/ \E n \in AgentNames : send_to_agent(n)
    \/ \E n \in AgentNames : queue_message_to_agent(n)
    \/ \E n \in AgentNames : process_start(n)
    \/ \E n \in AgentNames, nonempty \in BOOLEAN : process(n, nonempty)
    \/ \E k \in TeamCalls : team_chat_end(k)
    \/ \E d \in Destroyers : stop_begin(d)
    \/ \E n \in AgentNames : worker_cancelled(n)
    \/ \E n \in AgentNames : worker_goes_on(n)
    \/ \E d \in Destroyers : stop_release(d)
    \/ \E d \in Destroyers : stop_pop(d)
    \/ team_aexit
    \/ master_aexit

\* ------------------------------------------------------------------------
\* Shell: PersistentShell.execute_stream
\* ------------------------------------------------------------------------

\* execute_stream calls on one shell
MaxShellCalls == 2

\* characters a command prints before the sentinel echo
MaxOut == 2

ShellCalls == 1..MaxShellCalls

\* the backspace character, as one symbol
Backspace == "\\b"

\* the characters of the shell's output
Chars == {"a", "?", "\n", Backspace}

\* the sentinel of each call (uuid4: distinct), as one symbol
Sentinel(k) == <<"S1", "S2", "S3", "S4">>[k]

\* the item json.dumps({"stdin_request": ...}), as one symbol
StdinRequest == "stdin_request"

HInit ==
    /\ sh_stdin = <<>>
    /\ sh_queue = <<>>
    /\ emitted = [k \in ShellCalls |-> <<>>]
    /\ xpc = [k \in ShellCalls |-> "new"]
    /\ xraw = [k \in ShellCalls |-> FALSE]
    /\ line = [k \in ShellCalls |-> <<>>]
    /\ yielded = [k \in ShellCalls |-> <<>>]
    /\ sh_alive = TRUE

\* str.rstrip and str.strip over the alphabet (the newline is its only
\* whitespace)
RECURSIVE rstrip(_)
rstrip(s) ==
    IF s # <<>> /\ s[Len(s)] = "\n" THEN rstrip(SubSeq(s, 1, Len(s) - 1)) ELSE s

RECURSIVE lstrip(_)
lstrip(s) == IF s # <<>> /\ Head(s) = "\n" THEN lstrip(Tail(s)) ELSE s

strip(s) == lstrip(rstrip(s))

\* _is_input_prompt over the alphabet: a non-blank line ending in "?"
is_input_prompt(s) ==
    LET t == rstrip(s) IN t # <<>> /\ t[Len(t)] = "?"

\* one pass of the loop of execute_stream for the character ch: the new
\* line, the items yielded so far, and whether the loop was left
read_char(ln, ys, raw, sentinel, ch) ==
    LET y1 == IF raw THEN Append(ys, ch) ELSE ys
        l1 == Append(ln, ch)
    IN IF ch = Backspace
       THEN [line |-> IF ln = <<>> THEN ln ELSE SubSeq(ln, 1, Len(ln) - 1),
             yielded |-> y1, done |-> FALSE]
       ELSE IF ch # "\n"
       THEN [line |-> l1, yielded |-> y1, done |-> FALSE]
       ELSE IF strip(l1) = <<sentinel>>
       THEN [line |-> l1, yielded |-> y1, done |-> TRUE]
       ELSE LET y2 == IF raw THEN y1 ELSE y1 \o l1
            IN  [line |-> <<>>,
                 yielded |-> IF is_input_prompt(l1)
                             THEN Append(y2, StdinRequest) ELSE y2,
                 done |-> FALSE]

\* execute_stream up to its first read: the command and the sentinel echo
\* are written to the shell (calls made after the shell has exited are not
\* followed)
execute_stream(k, raw) ==
    /\ xpc[k] = "new"
    /\ sh_alive
    /\ sh_stdin' = Append(sh_stdin, k)
    /\ xpc' = [xpc EXCEPT ![k] = "reading"]
    /\ xraw' = [xraw EXCEPT ![k] = raw]
    /\ UNCHANGED <<sh_queue, emitted, line, yielded, sh_alive>>
    /\ UNCHANGED not_shell

\* the shell prints a character of the running command; _read_loop queues it
shell_output(ch) ==
    /\ sh_stdin # <<>>
    /\ Len(emitted[Head(sh_stdin)]) < MaxOut
    /\ sh_queue' = Append(sh_queue, ch)
    /\ emitted' = [emitted EXCEPT ![Head(sh_stdin)] = Append(@, ch)]
    /\ UNCHANGED <<sh_stdin, xpc, xraw, line, yielded, sh_alive>>
    /\ UNCHANGED not_shell

\* the command is over and the shell runs echo SENTINEL
shell_echo ==
    /\ sh_stdin # <<>>
    /\ sh_queue' = sh_queue \o <<Sentinel(Head(sh_stdin)), "\n">>
    /\ sh_stdin' = Tail(sh_stdin)
    /\ UNCHANGED <<emitted, xpc, xraw, line, yielded, sh_alive>>
    /\ UNCHANGED not_shell

\* the running command ends the shell process (exit, or a crash): the
\* commands and the sentinel echo still on its stdin are never run,
\* _read_loop reads the end of the stream and breaks, and nothing is put on
\* the queue
shell_exit ==
    /\ sh_alive
    /\ sh_stdin # <<>>
    /\ sh_alive' = FALSE
    /\ sh_stdin' = <<>>
    /\ UNCHANGED <<sh_queue, emitted, xpc, xraw, line, yielded>>
    /\ UNCHANGED not_shell

\* a call takes the next character from the queue
read(k) ==
    /\ xpc[k] = "reading"
    /\ sh_queue # <<>>
    /\ LET r == read_char(line[k], yielded[k], xraw[k], Sentinel(k),
                          Head(sh_queue))
       IN /\ line' = [line EXCEPT ![k] = r.line]
          /\ yielded' = [yielded EXCEPT ![k] = r.yielded]
          /\ xpc' = [xpc EXCEPT ![k] = IF r.done THEN "done" ELSE "reading"]
    /\ sh_queue' = Tail(sh_queue)
    /\ UNCHANGED <<sh_stdin, emitted, xraw, sh_alive>>
    /\ UNCHANGED not_shell

HNext ==
    \/ \E k \in ShellCalls, raw \in BOOLEAN : execute_stream(k, raw)
    \/ \E ch \in Chars : shell_output(ch)
    \/ shell_echo
    \/ shell_exit
    \/ \E k \in ShellCalls : read(k)

\* ------------------------------------------------------------------------
\* Memory: get_memory, set_memory, edit_memory, edit_protected_memory and
\* the manage_memory tool. A text is a sequence of units; a JSON object is
\* written as "{", then key and value for each field, then "}".
\* ------------------------------------------------------------------------

\* config.MEMORY_LIMIT, in units of the text
MEMORY_LIMIT == 10

\* top-level field names and the names inside protected_memory
Fields == {"name", "age", "gender", "protected_memory"}

ProtFields == {"p"}

\* string values
Vals == {"", "x"}

\* a whitespace unit
Blank == " "

\* JSON values: a string, an object with string values, or no value (None)
Str(s) == [kind |-> "str", s |-> s, d |-> <<>>]

Obj(d) == [kind |-> "obj", s |-> "", d |-> d]

NoValue == [kind |-> "none", s |-> "", d |-> <<>>]

\* dict operations on a sequence of [k, v] in insertion order
Has(data, k) == \E i \in 1..Len(data) : data[i].k = k

Lookup(data, k) ==
    IF Has(data, k)
    THEN data[CHOOSE i \in 1..Len(data) : data[i].k = k].v
    ELSE NoValue

\* data[k] = v
Put(data, k, v) ==
    IF Has(data, k)
    THEN [i \in 1..Len(data) |-> IF data[i].k = k THEN [k |-> k, v |-> v]
                                 ELSE data[i]]
    ELSE Append(data, [k |-> k, v |-> v])

\* data.pop(k, None)
Pop(data, k) == SelectSeq(data, LAMBDA e : e.k # k)

\* json.dumps of an object with string values, without its braces
RECURSIVE dumps_inner(_)
dumps_inner(d) ==
    IF d = <<>> THEN <<>>
    ELSE <<Head(d).k, Head(d).v>> \o dumps_inner(Tail(d))

dumps_value(v) ==
    IF v.kind = "str" THEN <<v.s>> ELSE <<"{">> \o dumps_inner(v.d) \o <<"}">>

RECURSIVE dumps_fields(_)
dumps_fields(data) ==
    IF data = <<>> THEN <<>>
    ELSE <<Head(data).k>> \o dumps_value(Head(data).v) \o dumps_fields(Tail(data))

\* json.dumps(data, ensure_ascii=False, indent=2)
dumps(data) == <<"{">> \o dumps_fields(data) \o <<"}">>

Structural == {"{", "}", Blank}

\* the fields of an inner object up to its closing brace
RECURSIVE parse_inner(_, _)
parse_inner(toks, acc) ==
    IF toks = <<>> THEN [ok |-> FALSE, data |-> <<>>, rest |-> <<>>]
    ELSE IF Head(toks) = "}" THEN [ok |-> TRUE, data |-> acc, rest |-> Tail(toks)]
    ELSE IF Len(toks) < 2 \/ toks[1] \in Structural \/ toks[2] \in Structural
    THEN [ok |-> FALSE, data |-> <<>>, rest |-> <<>>]
    ELSE parse_inner(Tail(Tail(toks)), Put(acc, toks[1], toks[2]))

\* the fields of the top-level object up to its closing brace
RECURSIVE parse_fields(_, _)
parse_fields(toks, acc) ==
    IF toks = <<>> THEN [ok |-> FALSE, data |-> <<>>, rest |-> <<>>]
    ELSE IF Head(toks) = "}" THEN [ok |-> TRUE, data |-> acc, rest |-> Tail(toks)]
    ELSE IF Len(toks) < 2 \/ toks[1] \in Structural \/ toks[2] \in {"}", Blank}
    THEN [ok |-> FALSE, data |-> <<>>, rest |-> <<>>]
    ELSE IF toks[2] = "{"
    THEN LET r == parse_inner(Tail(Tail(toks)), <<>>)
         IN IF r.ok THEN parse_fields(r.rest, Put(acc, toks[1], Obj(r.data)))
            ELSE [ok |-> FALSE, data |-> <<>>, rest |-> <<>>]
    ELSE parse_fields(Tail(Tail(toks)), Put(acc, toks[1], Str(toks[2])))

\* str.strip()
RECURSIVE strip_blank(_)
strip_blank(s) ==
    IF s # <<>> /\ Head(s) = Blank THEN strip_blank(Tail(s))
    ELSE IF s # <<>> /\ s[Len(s)] = Blank THEN strip_blank(SubSeq(s, 1, Len(s) - 1))
    ELSE s

\* json.loads: ok is FALSE for JSONDecodeError; obj tells an object from
\* any other JSON value
loads(text) ==
    LET t == strip_blank(text)
    IN IF t = <<>> THEN [ok |-> FALSE, obj |-> FALSE, data |-> <<>>]
       ELSE IF Head(t) = "{"
       THEN LET r == parse_fields(Tail(t), <<>>)
            IN [ok |-> r.ok /\ r.rest = <<>>, obj |-> TRUE,
                data |-> IF r.ok /\ r.rest = <<>> THEN r.data ELSE <<>>]
       ELSE [ok |-> Len(t) = 1 /\ t[1] \notin Structural, obj |-> FALSE,
             data |-> <<>>]

\* config.DEFAULT_MEMORY_TEMPLATE (the fields age and gender, which are
\* like name, left out)
DEFAULT_MEMORY_TEMPLATE ==
    dumps(<<[k |-> "name", v |-> Str("")],
            [k |-> "protected_memory", v |-> Obj(<<>>)]>>)

\* memory[:MEMORY_LIMIT]
Truncate(text) ==
    IF Len(text) > MEMORY_LIMIT THEN SubSeq(text, 1, MEMORY_LIMIT) ELSE text

\* get_memory: the stored text, or the template, which is then stored
get_memory(mem) == IF mem = <<>> THEN DEFAULT_MEMORY_TEMPLATE ELSE mem

\* set_memory that truncates without stripping
set_memory_unstripped(text) == Truncate(text)

\* set_memory: the text that is stored
set_memory(text) == Truncate(strip_blank(text))

\* edit_memory: the stored text after the call, whether it raised (the
\* stored JSON is not an object: data.pop / data[field] fail) and the text
\* it passed to set_memory
edit_memory(mem, field, value) ==
    LET text == get_memory(mem)
        r == loads(text)
        data == IF r.ok THEN r.data ELSE <<>>
        memory_text == dumps(IF value = NoValue THEN Pop(data, field)
                             ELSE Put(data, field, value))
    IN IF r.ok /\ ~r.obj
       THEN [mem |-> text, raised |-> TRUE, input |-> <<>>]
       ELSE [mem |-> set_memory(memory_text), raised |-> FALSE,
             input |-> memory_text]

\* the tool manage_memory: edit_memory with every exception caught
memory_tool(mem, field, value) == edit_memory(mem, field, value).mem

\* edit_protected_memory
edit_protected_memory(mem, field, value) ==
    LET text == get_memory(mem)
        r == loads(text)
        data == IF r.ok THEN r.data ELSE <<>>
        old == Lookup(data, "protected_memory")
        protected == IF old.kind = "obj" THEN old.d ELSE <<>>
        new == IF value = NoValue THEN Pop(protected, field)
               ELSE Put(protected, field, value.s)
        memory_text == dumps(Put(data, "protected_memory", Obj(new)))
    IN IF r.ok /\ ~r.obj
       THEN [mem |-> text, raised |-> TRUE, input |-> <<>>]
       ELSE [mem |-> set_memory(memory_text), raised |-> FALSE,
             input |-> memory_text]

\* texts a caller of set_memory passes: objects, padded with blanks or
\* not, an empty text and a text that is no JSON object
SampleData ==
    {<<>>,
     <<[k |-> "name", v |-> Str("x")]>>,
     <<[k |-> "name", v |-> Str("x")], [k |-> "age", v |-> Str("x")],
       [k |-> "protected_memory", v |-> Obj(<<[k |-> "p", v |-> "x"]>>)]>>}

RawTexts ==
    {a \o dumps(d) \o b : a \in {<<>>, <<Blank>>},
                          b \in {<<>>, <<Blank, Blank>>}, d \in SampleData}
    \cup {<<>>, <<"x">>}

\* the values an edit passes: a string or None
EditValues == {Str(v) : v \in Vals} \cup {NoValue}

MInit ==
    /\ memory = <<>>
    /\ mem_input = <<>>
    /\ mem_fresh = FALSE

\* the API call set_memory(user, memory)
SetMemory(text) ==
    /\ memory' = set_memory(text)
    /\ mem_input' = text
    /\ mem_fresh' = TRUE
    /\ UNCHANGED not_memory

\* a call that reads the memory (the system prompt is refreshed)
GetMemory ==
    /\ memory' = get_memory(memory)
    /\ mem_fresh' = (mem_fresh /\ memory' = memory)
    /\ UNCHANGED mem_input
    /\ UNCHANGED not_memory

\* what an edit leaves behind
Edited(r) ==
    /\ memory' = r.mem
    /\ mem_input' = IF r.raised THEN mem_input ELSE r.input
    /\ mem_fresh' = IF r.raised THEN mem_fresh ELSE TRUE
    /\ UNCHANGED not_memory

\* host code calls edit_memory
EditMemory(field, value) ==
    /\ field \in Fields
    /\ Edited(edit_memory(memory, field, value))

\* the model calls the manage_memory tool
ManageMemory(field, value) ==
    /\ memory_tool(memory, field, value) = edit_memory(memory, field, value).mem
    /\ Edited(edit_memory(memory, field, value))

\* host code calls edit_protected_memory
EditProtectedMemory(field, value) ==
    /\ field \in ProtFields
    /\ Edited(edit_protected_memory(memory, field, value))

MNext ==
    \/ \E text \in RawTexts : SetMemory(text)
    \/ GetMemory
    \/ \E f \in Fields, v \in EditValues : EditMemory(f, v)
    \/ \E f \in Fields, v \in EditValues : ManageMemory(f, v)
    \/ \E f \in ProtFields, v \in EditValues : EditProtectedMemory(f, v)

(***************************************************************************)
(* The sandbox's notification directory, its return directory and          *)
(* execute().  A text is a sequence of characters.                          *)
(***************************************************************************)
MaxPosts == 2

OutputLimit == 2

CR == "\r"

LF == "\n"

NoteTexts == {<<"a">>, <<"b">>, <<"a", CR>>}

FileNames == {"f", "g"}

FileData == {<<>>, <<1>>}

\* Path.write_text on the container host: the text as it is ("\n" is the
\* line separator there, so nothing is translated on the way out)
write_text(text) == text

\* Path.read_text opens the file with universal newlines: "\r\n" and a
\* lone "\r" both come back as "\n"
RECURSIVE read_text(_)
read_text(data) ==
    IF data = <<>> THEN <<>>
    ELSE IF Head(data) = CR
         THEN IF Len(data) > 1 /\ data[2] = LF
              THEN <<LF>> \o read_text(SubSeq(data, 3, Len(data)))
              ELSE <<LF>> \o read_text(Tail(data))
         ELSE <<Head(data)>> \o read_text(Tail(data))

\* post_notification: the file is named after the time of the call, and a
\* file of that name is overwritten
post_notification(dir, now, message) ==
    [n \in DOMAIN dir \cup {now} |->
        IF n = now THEN write_text(message) ELSE dir[n]]

\* sorted(glob("*.txt")): the names are timestamps of one width
RECURSIVE sorted(_)
sorted(names) ==
    IF names = {} THEN <<>>
    ELSE LET n == CHOOSE x \in names : \A y \in names : x <= y
         IN <<n>> \o sorted(names \ {n})

\* fetch_notifications: every file is read and removed, in name order
fetch_notifications(dir) ==
    LET names == sorted(DOMAIN dir)
    IN [notes |-> [i \in 1..Len(names) |-> read_text(dir[names[i]])],
        dir |-> [n \in {} |-> <<>>]]

\* fetch_returned_files: each file is moved, read and deleted; the call
\* returns (name, bytes) tuples
RECURSIVE sorted_names(_)
sorted_names(names) ==
    IF names = {} THEN <<>>
    ELSE LET n == CHOOSE x \in names :
                      \A y \in names : x = y \/ (x = "f" /\ y = "g")
         IN <<n>> \o sorted_names(names \ {n})

fetch_returned_files(dir) ==
    LET names == sorted_names(DOMAIN dir)
    IN [files |-> [i \in 1..Len(names) |->
                      [type |-> "tuple", name |-> names[i],
                       data |-> dir[names[i]]]],
        dir |-> [n \in {} |-> <<>>]]

\* r.read_bytes(): a method of Path; any other object has no such attribute
read_bytes(r) ==
    IF r.type = "Path" THEN [raised |-> FALSE, data |-> r.data]
    ELSE [raised |-> TRUE, data |-> <<>>]

\* base64.b64encode(data).decode()
b64encode(data) ==
    IF data = <<>> THEN "" ELSE IF data = <<1>> THEN "AQ==" ELSE "AA=="

\* an item of the notification queue
Note(text) == [note |-> text, returned_file |-> "", data |-> ""]

Payload(name, encoded) ==
    [note |-> <<>>, returned_file |-> name, data |-> encoded]

\* the loop of poll_notifications over the returned files: a file whose
\* read raises is logged and skipped
RECURSIVE returned_payloads(_)
returned_payloads(returned) ==
    IF returned = <<>> THEN <<>>
    ELSE LET r == Head(returned)
             b == read_bytes(r)
         IN IF b.raised THEN returned_payloads(Tail(returned))
            ELSE <<Payload(r.name, b64encode(b.data))>>
                 \o returned_payloads(Tail(returned))

\* limit_chars: the stripped output, or a notice and its last `limit` units
limit_chars(text) ==
    LET s == strip(text)
    IN IF Len(s) <= OutputLimit THEN s
       ELSE <<"(output truncated)">>
            \o SubSeq(s, Len(s) - OutputLimit + 1, Len(s))

Diagnostics == {"Failed to execute command", "Command timed out"}

\* what the runtime does with one exec: the process cannot be started, it
\* outlives the limit, or it ends
ExecOutcomes == {"spawn_error", "timeout", "done"}

Outputs == {<<>>, <<"o", LF>>, <<"o", "o", "o">>}

\* LinuxVM.execute
execute(running, detach, outcome, output) ==
    IF ~running
    THEN [kind |-> "raised", text |-> <<"VM is not running">>]
    ELSE IF detach
    THEN IF outcome = "spawn_error"
         THEN [kind |-> "returned", text |-> <<"Failed to execute command">>]
         ELSE [kind |-> "returned", text |-> <<>>]
    ELSE IF outcome = "spawn_error"
    THEN [kind |-> "raised", text |-> <<"OSError">>]
    ELSE IF outcome = "timeout"
    THEN [kind |-> "returned", text |-> <<"Command timed out">>]
    ELSE [kind |-> "returned", text |-> limit_chars(output)]

NInit ==
    /\ utcnow = 0
    /\ notifications_dir = [n \in {} |-> <<>>]
    /\ posted = <<>>
    /\ expected = <<>>
    /\ notes = <<>>
    /\ last_call = "none"
    /\ posts_made = 0
    /\ return_queue_dir = [n \in {} |-> <<>>]
    /\ drained = {}
    /\ poller_queue = <<>>
    /\ sandbox_running = FALSE
    /\ exec_result = [kind |-> "none", text |-> <<>>, failure |-> "none"]

\* a caller posts a notification; the clock has moved on by `tick`
\* microseconds since the previous post
PostNotification(message, tick) ==
    /\ posts_made < MaxPosts
    /\ utcnow' = utcnow + tick
    /\ notifications_dir' = post_notification(notifications_dir, utcnow', message)
    /\ posted' = Append(posted, message)
    /\ posts_made' = posts_made + 1
    /\ last_call' = "post"
    /\ UNCHANGED <<expected, notes, return_queue_dir, drained, poller_queue,
                   sandbox_running, exec_result>>
    /\ UNCHANGED not_sandbox

\* ChatSession._queue_notification, the first statements of
\* send_notification: the message is posted to the sandbox's directory
\* and put on the notification queue
queue_notification(message, tick) ==
    /\ posts_made < MaxPosts
    /\ utcnow' = utcnow + tick
    /\ notifications_dir' = post_notification(notifications_dir, utcnow', message)
    /\ poller_queue' = Append(poller_queue, Note(message))
    /\ posted' = Append(posted, message)
    /\ posts_made' = posts_made + 1
    /\ last_call' = "post"
    /\ UNCHANGED <<expected, notes, return_queue_dir, drained,
                   sandbox_running, exec_result>>
    /\ UNCHANGED not_sandbox

\* a caller fetches the notifications
FetchNotifications ==
    /\ last_call \in {"post", "fetch"}
    /\ notes' = fetch_notifications(notifications_dir).notes
    /\ notifications_dir' = fetch_notifications(notifications_dir).dir
    /\ expected' = posted
    /\ posted' = <<>>
    /\ last_call' = "fetch"
    /\ UNCHANGED <<utcnow, posts_made, return_queue_dir, drained, poller_queue,
                   sandbox_running, exec_result>>
    /\ UNCHANGED not_sandbox

\* a program in the sandbox queues a file for return
ReturnFile(name, data) ==
    /\ name \notin DOMAIN return_queue_dir
    /\ name \notin drained
    /\ return_queue_dir' = [n \in DOMAIN return_queue_dir \cup {name} |->
                               IF n = name THEN data ELSE return_queue_dir[n]]
    /\ UNCHANGED <<utcnow, notifications_dir, posted, expected, notes,
                   last_call, posts_made, drained, poller_queue,
                   sandbox_running, exec_result>>
    /\ UNCHANGED not_sandbox

\* the poller: both directories are drained and every item is queued
PollSandbox ==
    /\ DOMAIN notifications_dir /= {} \/ DOMAIN return_queue_dir /= {}
    /\ LET n == fetch_notifications(notifications_dir)
           r == fetch_returned_files(return_queue_dir)
       IN /\ notes' = n.notes
          /\ notifications_dir' = n.dir
          /\ return_queue_dir' = r.dir
          /\ drained' = drained \cup {r.files[i].name : i \in 1..Len(r.files)}
          /\ poller_queue' = poller_queue
                 \o [i \in 1..Len(n.notes) |-> Note(n.notes[i])]
                 \o returned_payloads(r.files)
    /\ expected' = posted
    /\ posted' = <<>>
    /\ last_call' = "poll"
    /\ UNCHANGED <<utcnow, posts_made, sandbox_running, exec_result>>
    /\ UNCHANGED not_sandbox

\* LinuxVM.start and LinuxVM.stop
StartSandbox ==
    /\ ~sandbox_running
    /\ sandbox_running' = TRUE
    /\ UNCHANGED <<utcnow, notifications_dir, posted, expected, notes,
                   last_call, posts_made, return_queue_dir, drained,
                   poller_queue, exec_result>>
    /\ UNCHANGED not_sandbox

StopSandbox ==
    /\ sandbox_running
    /\ sandbox_running' = FALSE
    /\ UNCHANGED <<utcnow, notifications_dir, posted, expected, notes,
                   last_call, posts_made, return_queue_dir, drained,
                   poller_queue, exec_result>>
    /\ UNCHANGED not_sandbox

\* a caller runs a command
Execute(detach, outcome, output) ==
    /\ exec_result' =
           [kind |-> execute(sandbox_running, detach, outcome, output).kind,
            text |-> execute(sandbox_running, detach, outcome, output).text,
            failure |-> IF ~sandbox_running THEN "not_running"
                        ELSE IF outcome = "done" THEN "none" ELSE outcome]
    /\ UNCHANGED <<utcnow, notifications_dir, posted, expected, notes,
                   last_call, posts_made, return_queue_dir, drained,
                   poller_queue, sandbox_running>>
    /\ UNCHANGED not_sandbox

NNext ==
    \/ \E m \in NoteTexts, tick \in {0, 1} : PostNotification(m, tick)
    \/ \E m \in NoteTexts, tick \in {0, 1} : queue_notification(m, tick)
    \/ FetchNotifications
    \/ \E f \in FileNames, d \in FileData : ReturnFile(f, d)
    \/ PollSandbox
    \/ StartSandbox
    \/ StopSandbox
    \/ \E detach \in BOOLEAN, o \in ExecOutcomes, out \in Outputs :
           Execute(detach, o, out)


(***************************************************************************)
(* The database manager: users, conversations, messages.                   *)
(***************************************************************************)
MaxMessages == 2

UserNames == {"u", "v"}

SessionNames == {"s", "t"}

MemoryTexts == {"", "m"}

NoCall == [op |-> "none", user |-> "", session |-> "", existed |-> FALSE,
           memory |-> ""]

\* User.get_or_create(username=username): a new row has memory ""
get_or_create_user(users, u) ==
    IF u \in DOMAIN users THEN users
    ELSE [x \in DOMAIN users \cup {u} |-> IF x = u THEN "" ELSE users[x]]

\* DatabaseManager.set_memory
db_set_memory(users, u, m) ==
    [x \in DOMAIN users \cup {u} |-> IF x = u THEN m ELSE users[x]]

\* DatabaseManager.delete_history: the three tables after the call
delete_history(users, convs, msgs, u, s) ==
    IF u \notin DOMAIN users \/ <<u, s>> \notin convs
    THEN [users |-> users, convs |-> convs, msgs |-> msgs, deleted |-> 0]
    ELSE LET rest == convs \ {<<u, s>>}
         IN [users |-> IF \E c \in rest : c[1] = u THEN users
                       ELSE [x \in DOMAIN users \ {u} |-> users[x]],
             convs |-> rest,
             msgs |-> [c \in rest |-> msgs[c]],
             deleted |-> msgs[<<u, s>>]]

DInit ==
    /\ db_users = [x \in {} |-> ""]
    /\ db_conversations = {}
    /\ db_messages = [c \in {} |-> 0]
    /\ db_last = NoCall

\* a session of user u named s is opened: the user and the conversation
\* rows are created when they are missing
OpenConversation(u, s) ==
    /\ db_users' = get_or_create_user(db_users, u)
    /\ db_conversations' = db_conversations \cup {<<u, s>>}
    /\ db_messages' = [c \in db_conversations' |->
                          IF c \in db_conversations THEN db_messages[c] ELSE 0]
    /\ db_last' = NoCall
    /\ UNCHANGED not_db

\* DatabaseManager.create_message
CreateMessage(u, s) ==
    /\ <<u, s>> \in db_conversations
    /\ db_messages[<<u, s>>] < MaxMessages
    /\ db_messages' = [db_messages EXCEPT ![<<u, s>>] = @ + 1]
    /\ db_last' = NoCall
    /\ UNCHANGED <<db_users, db_conversations>>
    /\ UNCHANGED not_db

\* DatabaseManager.set_memory
DbSetMemory(u, m) ==
    /\ db_users' = db_set_memory(db_users, u, m)
    /\ db_last' = NoCall
    /\ UNCHANGED <<db_conversations, db_messages>>
    /\ UNCHANGED not_db

\* DatabaseManager.delete_history
DeleteHistory(u, s) ==
    /\ LET r == delete_history(db_users, db_conversations, db_messages, u, s)
       IN /\ db_users' = r.users
          /\ db_conversations' = r.convs
          /\ db_messages' = r.msgs
    /\ db_last' = [op |-> "delete_history", user |-> u, session |-> s,
                   existed |-> u \in DOMAIN db_users,
                   memory |-> IF u \in DOMAIN db_users THEN db_users[u] ELSE ""]
    /\ UNCHANGED not_db

DNext ==
    \/ \E u \in UserNames, s \in SessionNames : OpenConversation(u, s)
    \/ \E u \in UserNames, s \in SessionNames : CreateMessage(u, s)
    \/ \E u \in UserNames, m \in MemoryTexts : DbSetMemory(u, m)
    \/ \E u \in UserNames, s \in SessionNames : DeleteHistory(u, s)


(***************************************************************************)
(* The older session of src/src/chat.py, which keeps a placeholder tool    *)
(* message in the log while a tool runs.  A message is modelled by what it *)
(* holds: user, assistant, placeholder, result, unsupported.               *)
(***************************************************************************)
MaxLegacyPrompts == 2

MaxSpins == 2

\* the state of the older session as a record
Lg ==
    [state |-> lg_state, messages |-> lg_messages, history |-> lg_history,
     placeholder_saved |-> lg_placeholder_saved, pc |-> lg_pc,
     exec |-> lg_exec, follow |-> lg_follow, reply |-> lg_reply,
     depth |-> lg_depth, prompts |-> lg_prompts, spins |-> lg_spins]

LgCommit(s) ==
    /\ lg_state' = s.state
    /\ lg_messages' = s.messages
    /\ lg_history' = s.history
    /\ lg_placeholder_saved' = s.placeholder_saved
    /\ lg_pc' = s.pc
    /\ lg_exec' = s.exec
    /\ lg_follow' = s.follow
    /\ lg_reply' = s.reply
    /\ lg_depth' = s.depth
    /\ lg_prompts' = s.prompts
    /\ lg_spins' = s.spins
    /\ UNCHANGED not_legacy

\* _remove_tool_placeholder: the last placeholder of the in-memory log
remove_tool_placeholder(log) ==
    LET idx == {i \in DOMAIN log : log[i] = "placeholder"}
    IN IF idx = {} THEN log
       ELSE LET k == CHOOSE i \in idx : \A j \in idx : j <= i
            IN SubSeq(log, 1, k - 1) \o SubSeq(log, k + 1, Len(log))

\* _save_tool_placeholder: the placeholder row is created once
save_tool_placeholder(s) ==
    IF s.placeholder_saved THEN s
    ELSE [s EXCEPT !.history = Append(@, "placeholder"),
                   !.placeholder_saved = TRUE]

\* _store_assistant_message and messages.append of a reply (every reply of
\* the model has content or tool calls)
lg_add_assistant(s) ==
    [s EXCEPT !.history = Append(@, "assistant"),
              !.messages = Append(@, "assistant")]

\* the tool result: the placeholder is removed, the tool message appended
\* and stored, the state set to generating and the next request issued
lg_tool_result(s) ==
    [s EXCEPT !.messages = Append(remove_tool_placeholder(@), "result"),
              !.placeholder_saved = FALSE,
              !.history = Append(@, "result"),
              !.state = "generating",
              !.exec = "none",
              !.pc = "ask_nxt"]

\* the loop of _handle_tool_calls_stream (chat.py) on the reply r
lg_handle_tool_calls(s, r) ==
    IF r.tool_calls = <<>> \/ s.depth >= max_tool_call_depth
    THEN [s EXCEPT !.state = "idle", !.pc = "idle", !.depth = 0]
    ELSE IF Head(r.tool_calls) \notin tool_funcs
    THEN [s EXCEPT !.messages = Append(@, "unsupported"),
                   !.history = Append(@, "unsupported"),
                   !.pc = "spin"]
    ELSE [s EXCEPT !.exec = "running",
                   !.messages = Append(@, "placeholder"),
                   !.placeholder_saved = FALSE,
                   !.follow = "pending",
                   !.state = "awaiting_tool",
                   !.pc = "race"]

\* the replies of the backend in this section: text, or one tool call
LgReplies ==
    {[content |-> TRUE, tool_calls |-> <<>>]}
    \cup {[content |-> FALSE, tool_calls |-> <<n>>] : n \in ToolNames}

LInit ==
    /\ lg_state = "idle"
    /\ lg_messages = <<>>
    /\ lg_history = <<>>
    /\ lg_placeholder_saved = FALSE
    /\ lg_pc = "idle"
    /\ lg_exec = "none"
    /\ lg_follow = "none"
    /\ lg_reply = NoReply
    /\ lg_depth = 0
    /\ lg_prompts = 0
    /\ lg_spins = 0

\* _generate_stream for a prompt taken from the queue
LgGenerate ==
    /\ lg_pc = "idle"
    /\ lg_state = "idle"
    /\ lg_prompts < MaxLegacyPrompts
    /\ LgCommit([Lg EXCEPT !.state = "generating",
                           !.history = Append(@, "user"),
                           !.messages = Append(@, "user"),
                           !.prompts = @ + 1,
                           !.pc = "ask0"])

\* the first reply of the turn
LgInitialReply(r) ==
    /\ lg_pc = "ask0"
    /\ LgCommit(lg_handle_tool_calls(lg_add_assistant(Lg), r))

\* the while loop runs again over the same reply: neither depth nor
\* response changes after an unsupported call
LgSpin ==
    /\ lg_pc = "spin"
    /\ lg_spins < MaxSpins
    /\ LgCommit([Lg EXCEPT !.messages = Append(@, "unsupported"),
                           !.history = Append(@, "unsupported"),
                           !.spins = @ + 1])

LgToolDone ==
    /\ lg_exec = "running"
    /\ LgCommit([Lg EXCEPT !.exec = "done"])

LgFollowupDone(r) ==
    /\ lg_follow = "pending"
    /\ LgCommit([Lg EXCEPT !.follow = "done", !.reply = r])

\* asyncio.wait returns: the tool branch, or the follow-up branch up to
\* result = await exec_task
LgRace ==
    /\ lg_pc = "race"
    /\ lg_exec = "done" \/ lg_follow = "done"
    /\ LgCommit(
         IF lg_exec = "done"
         THEN lg_tool_result([Lg EXCEPT !.follow = "none", !.reply = NoReply])
         ELSE [lg_add_assistant(save_tool_placeholder(Lg))
                  EXCEPT !.follow = "none", !.reply = NoReply, !.pc = "fw_tool"])

\* the follow-up won and the tool has now finished
LgToolAwaited ==
    /\ lg_pc = "fw_tool"
    /\ lg_exec = "done"
    /\ LgCommit(lg_tool_result(Lg))

\* the reply to the request issued after the tool result
LgNextReply(r) ==
    /\ lg_pc = "ask_nxt"
    /\ LgCommit(lg_handle_tool_calls(
           [lg_add_assistant(Lg) EXCEPT !.depth = @ + 1], r))

LNext ==
    \/ LgGenerate
    \/ \E r \in LgReplies : LgInitialReply(r)
    \/ LgSpin
    \/ LgToolDone
    \/ \E r \in LgReplies : LgFollowupDone(r)
    \/ LgRace
    \/ LgToolAwaited
    \/ \E r \in LgReplies : LgNextReply(r)


(***************************************************************************)
(* PersistentShell.start under overlapping callers.                        *)
(***************************************************************************)
MaxStartCalls == 3

MaxStops == 1

StartCalls == 1..MaxStartCalls

\* the methods that begin with await self.start()
StartOps == {"execute_stream", "send_input", "send_keys"}

PInit ==
    /\ sp_proc = 0
    /\ sp_reader = 0
    /\ live_procs = {}
    /\ live_readers = {}
    /\ sp_pc = [k \in StartCalls |-> <<"new", "none">>]
    /\ sp_stops = 0

\* call k of method op enters start(): with a process it returns at once,
\* without one it suspends in create_subprocess_exec
start_begin(k, op) ==
    /\ sp_pc[k][1] = "new"
    /\ sp_pc' = [sp_pc EXCEPT ![k] =
                    IF sp_proc # 0 THEN <<"started", op>> ELSE <<"spawning", op>>]
    /\ UNCHANGED <<sp_proc, sp_reader, live_procs, live_readers, sp_stops>>
    /\ UNCHANGED not_starts

\* create_subprocess_exec returns in call k: the process is assigned to
\* _proc and a reader task is created
start_end(k) ==
    /\ sp_pc[k][1] = "spawning"
    /\ sp_proc' = k
    /\ sp_reader' = k
    /\ live_procs' = live_procs \cup {k}
    /\ live_readers' = live_readers \cup {k}
    /\ sp_pc' = [sp_pc EXCEPT ![k] = <<"started", @[2]>>]
    /\ UNCHANGED sp_stops
    /\ UNCHANGED not_starts

\* stop(): the reader in _reader is cancelled, the process in _proc is
\* terminated, both attributes are cleared
shell_stop ==
    /\ sp_stops < MaxStops
    /\ live_readers' = live_readers \ {sp_reader}
    /\ live_procs' = live_procs \ {sp_proc}
    /\ sp_proc' = 0
    /\ sp_reader' = 0
    /\ sp_stops' = sp_stops + 1
    /\ UNCHANGED sp_pc
    /\ UNCHANGED not_starts

PNext ==
    \/ \E k \in StartCalls, op \in StartOps : start_begin(k, op)
    \/ \E k \in StartCalls : start_end(k)
    \/ shell_stop


\* the parts of the initial state outside the session and the registry
OInit == TInit /\ HInit /\ MInit /\ NInit /\ DInit /\ LInit /\ PInit

RegInit == SInit /\ RInit /\ OInit

RegSpec == RegInit /\ [][RNext]_vars

RAllNext ==
    \/ RNext
    \/ \E t \in Threads, k \in Keys : unmatched_release(t, k)
    \/ shutdown_all

\* the registry when callers also release without acquiring and the process
\* calls shutdown_all
RegAllSpec == RegInit /\ [][RAllNext]_vars

Init == SInit /\ RQuiet /\ OInit

Next == SNext

Spec == Init /\ [][Next]_vars

\* the event loop runs every task that can run, the chat backend answers
\* every request and every tool finishes; callers and the sandbox are free
\* to stay silent
TeamInit == SInit /\ RQuiet /\ OInit

TeamSpec == TeamInit /\ [][TNext]_vars

\* the event loop runs every helper worker and every stop() that can go on
TeamFairSpec ==
    /\ TeamSpec
    /\ \A n \in AgentNames :
          /\ WF_vars(process_start(n))
          /\ WF_vars(\E nonempty \in BOOLEAN : process(n, nonempty))
          /\ WF_vars(worker_cancelled(n))
    /\ \A d \in Destroyers :
          /\ WF_vars(stop_begin(d))
          /\ WF_vars(stop_release(d))
          /\ WF_vars(stop_pop(d))

ShellInit == SInit /\ RQuiet /\ OInit

MemInit == SInit /\ RQuiet /\ OInit

MemSpec == MemInit /\ [][MNext]_vars

SandboxInit == SInit /\ RQuiet /\ OInit

SandboxSpec == SandboxInit /\ [][NNext]_vars

DbInit == SInit /\ RQuiet /\ OInit

DbSpec == DbInit /\ [][DNext]_vars

LegacyInit == SInit /\ RQuiet /\ OInit

LegacySpec == LegacyInit /\ [][LNext]_vars

StartInit == SInit /\ RQuiet /\ OInit

StartSpec == StartInit /\ [][PNext]_vars

ShellSpec == ShellInit /\ [][HNext]_vars

\* the event loop runs every call that has a character to read, and a
\* shell that lives runs the commands on its stdin
ShellFairSpec ==
    /\ ShellSpec
    /\ \A k \in ShellCalls : WF_vars(read(k))
    /\ WF_vars(shell_echo)

ErrNext ==
    \/ SNext
    \/ \E c \in Ctx : LLMFails(c)
    \/ \E c \in Ctx : FollowupFails(c)
    \/ \E c \in Ctx : ToolFails(c)
    \/ \E c \in Ctx : LockAcquired(c)

\* the session when requests and tools may raise
ErrSpec == Init /\ [][ErrNext]_vars

CloseNext ==
    \/ SNext
    \/ aexit

\* the session when it is closed at any moment
CloseSpec == Init /\ [][CloseNext]_vars

FairSpec ==
    /\ Init
    /\ [][Next]_vars
    /\ WF_vars(WorkerRun)
    /\ WF_vars(\E p \in Prompts : CallerResume(p))
    /\ WF_vars(\E c \in Ctx, r \in Replies : InitialReply(c, r))
    /\ WF_vars(\E c \in Ctx, r \in Replies : NextReply(c, r))
    /\ WF_vars(\E c \in Ctx, r \in Replies : FollowupDone(c, r))
    /\ WF_vars(\E c \in Ctx : ToolDone(c))
    /\ WF_vars(\E c \in Ctx : await_tool_and_followup(c))
    /\ WF_vars(\E c \in Ctx : CancelAck(c))
    /\ WF_vars(\E c \in Ctx : ToolAwaited(c))

\* ------------------------------------------------------------------------
\* Properties
\* ------------------------------------------------------------------------

\* C1: the stored messages of every completed prompt turn have the shape
\* user, then assistant and tool messages only, ending with an assistant
\* message
C1_TurnShape ==
    \A p \in turn_done :
        LET h == history(Turn(p))
        IN /\ h # <<>>
           /\ h[1].role = "user"
           /\ \A i \in 2..Len(h) : h[i].role \in {"assistant", "tool"}
           /\ h[Len(h)].role = "assistant"

\* C2: a prompt dequeued while the status is awaiting_tool with an active
\* tool is eventually finished: its result queue receives the end marker
\* and the session is idle again
C2_InterleavedPromptCompletes ==
    \A p \in Prompts :
        (p \in via_tool) ~> (p \in result_q /\ lock = None)

\* C3: prompts are dequeued in submission order by one worker, and every
\* submitted prompt eventually has the end marker on its result queue
C3_EveryPromptServed ==
    \A p \in Prompts : (phase[p] = "waiting") ~> (p \in result_q)

\* C7: a turn processes at most max_tool_call_depth tool calls, and a task
\* whose loop stopped at the cap with tool calls left sets the status to
\* idle: it is never left waiting for the session lock
C7_CapThenIdle ==
    \A c \in Ctx :
        /\ processed[c] <= max_tool_call_depth
        /\ ~(pc[c] = "lk_idle" /\ depth[c] >= max_tool_call_depth
             /\ calls[c] # <<>>)

\* C8, as stated: a turn that processed d tool calls has issued at most
\* d + 1 LLM requests
C8_AtMostDPlusOne ==
    \A c \in Ctx : llm_calls[c] <= processed[c] + 1

\* C8, amended: a turn that processed d tool calls has issued at most
\* 2 * d + 1 LLM requests (the first one, then a speculative follow-up and a
\* request after the result for each executed tool), and d never exceeds
\* max_tool_call_depth
C8_AtMostTwoDPlusOne ==
    \A c \in Ctx :
        /\ llm_calls[c] <= 2 * processed[c] + 1
        /\ processed[c] <= max_tool_call_depth

\* a turn that ran max_tool_call_depth tools and issued every request the
\* bound allows
C8_Witness ==
    \E c \in Ctx :
        /\ processed[c] = max_tool_call_depth
        /\ llm_calls[c] = 2 * max_tool_call_depth + 1

\* C9: status idle or generating implies that the tool handle is nil
C9_HandleOnlyWhileAwaiting ==
    status \in {"idle", "generating"} => tool_task = None

\* C10: at most one tool execution task of the session is unfinished
C10_OneToolTask ==
    Cardinality({c \in Ctx : exec_task[c] = "running"}) <= 1

\* C11: every notification in the log was appended while the session
\* status was idle
C11_FlushOnlyWhenIdle ==
    \A i \in 1..Len(messages[Notes]) : ~messages[Notes][i].busy

\* the calls that may follow an unsupported call in one assistant message
RestCalls == {<<>>, <<"unknown_tool">>, <<"execute_terminal_async">>}

C4_RefcountIsPending ==
    \A k \in Keys : counts[k] = pending[k]

\* one thread is in the release that brought a key to zero while the other
\* holds a different key
C4_Witness ==
    \E t1, t2 \in Threads :
        /\ tpc[t1] = "stopping" /\ counts[tkey[t1]] = 0
        /\ tpc[t2] = "holding" /\ counts[tkey[t2]] = 1
        /\ tkey[t1] # tkey[t2]

\* no thread is inside a registry call on key k
Quiet(k) == \A t \in Threads : tkey[t] = k => tpc[t] \in {"idle", "holding"}

\* C5: the refcount is never negative, and between calls a key whose
\* refcount is positive has its sandbox running: nothing stops the sandbox
\* of a key before its refcount is zero
C5_RunningWhileReferenced ==
    \A k \in Keys :
        /\ counts[k] >= 0
        /\ (counts[k] > 0 /\ Quiet(k)) => container[ContainerOf(k)] = "running"

\* C6: of two acquire calls working on the same LinuxVM object neither
\* fails in start()
C6_NoStartRace == ~start_failed

\* C12: every helper reply in the parent's log was appended while the
\* parent's status was idle
C12_HelperRepliesOnlyWhenIdle ==
    \A i \in 1..Len(master_log) : ~master_log[i].busy

\* C17: the helper map never holds more than max_mini_agents helpers; a
\* spawn at the cap returns "Agent limit reached" and a spawn of an existing
\* name is rejected, both leaving the helper map and the open sub-sessions
\* as they were
C17_AgentCap ==
    /\ Cardinality(agents) <= max_mini_agents
    /\ \A n \in AgentNames :
         LET r == spawn_agent(agents, sub_open, n)
         IN /\ n \in agents =>
                 /\ r.ret = "Agent already exists"
                 /\ r.agents = agents /\ r.open = sub_open
            /\ (n \notin agents /\ Cardinality(agents) >= max_mini_agents) =>
                 /\ r.ret = "Agent limit reached"
                 /\ r.agents = agents /\ r.open = sub_open

C17_Witness ==
    /\ Cardinality(agents) = max_mini_agents
    /\ spawn_ret = "Agent limit reached"

\* C18: once the parent team session has exited, the helper map is empty,
\* no helper's inbox worker exists and every helper's sub-session has
\* released its sandbox reference
C18_ExitStopsHelpers ==
    exit_pc = "done" =>
        /\ agents = {}
        /\ \A n \in AgentNames : agent_task[n] = "none"
        /\ sub_open = {}

\* C19: at most one execute_stream call on the shell is between the write
\* of its command and its sentinel line
C19_OneActiveStream ==
    Cardinality({k \in ShellCalls : xpc[k] = "reading"}) <= 1

\* C20: a call that ran alone on the shell has yielded, when it ends,
\* exactly the output of its command
C20_YieldedIsOutput ==
    \A k \in ShellCalls :
        (xpc[k] = "done" /\ \A j \in ShellCalls \ {k} : xpc[j] = "new")
            => yielded[k] = emitted[k]


\* C13: once the session is closed no prompt worker, request or tool task
\* is left and the shared status is idle with a nil tool handle
C13_CloseCancelsAll ==
    closed = "closed" =>
        /\ worker = "none"
        /\ \A c \in Ctx : /\ pc[c] \notin {"ask0", "ask_nxt"}
                          /\ follow_task[c] # "pending"
                          /\ exec_task[c] # "running"
        /\ status = "idle"
        /\ tool_task = None

\* C14: when only requests to the chat backend have failed and no turn is
\* in progress, the session is idle with a nil tool handle
C14_LLMFailureEndsIdle ==
    ((\A c \in Ctx : mode[c] = "none")
        /\ \A i \in 1..Len(failed) : failed[i] = "llm")
    => (status = "idle" /\ tool_task = None)

\* C15: a tool that raises does not end the turn that awaits it
C15_ToolFailureContinues ==
    (\A i \in 1..Len(failed) : failed[i] = "tool") => aborted = {}

\* the protected_memory subtree of a stored memory
ProtectedOf(mem) == Lookup(loads(get_memory(mem)).data, "protected_memory")

\* C21: no call of the manage_memory tool changes the protected_memory
\* subtree, whatever the field and the value
C21_ToolKeepsProtected ==
    \A f \in Fields, v \in EditValues :
        ProtectedOf(memory_tool(memory, f, v)) = ProtectedOf(memory)

\* C22: when the stored memory is a JSON object, after edit_memory(k, v)
\* the memory parses as an object with k = v, after edit_memory(k, None) as
\* an object without k
C22_EditThenGet ==
    LET prior == loads(get_memory(memory))
    IN (prior.ok /\ prior.obj) =>
       \A f \in Fields, v \in EditValues :
          LET r == loads(get_memory(edit_memory(memory, f, v).mem))
          IN /\ r.ok /\ r.obj
             /\ IF v = NoValue THEN ~Has(r.data, f) ELSE Lookup(r.data, f) = v

\* C23: edit_protected_memory leaves every top-level field other than
\* protected_memory as it was
C23_ProtectedEditFrame ==
    \A f \in ProtFields, v \in EditValues : \A k \in Fields \ {"protected_memory"} :
        Lookup(loads(get_memory(edit_protected_memory(memory, f, v).mem)).data, k)
            = Lookup(loads(get_memory(memory)).data, k)

\* C24 as stated: the stored text is at most MEMORY_LIMIT long and an input
\* longer than the limit is stored as its first MEMORY_LIMIT units
C24_StoredIsInputPrefix ==
    mem_fresh =>
        /\ Len(memory) <= MEMORY_LIMIT
        /\ Len(mem_input) > MEMORY_LIMIT
              => memory = SubSeq(mem_input, 1, MEMORY_LIMIT)

\* C24, amended: the stored text is at most MEMORY_LIMIT long and is the
\* input without its leading and trailing blanks, cut to its first
\* MEMORY_LIMIT units when that is longer than the limit
C24_StoredIsStrippedPrefix ==
    mem_fresh =>
        LET s == strip_blank(mem_input)
        IN /\ Len(memory) <= MEMORY_LIMIT
           /\ memory = IF Len(s) > MEMORY_LIMIT THEN SubSeq(s, 1, MEMORY_LIMIT)
                       ELSE s

C24_Witness ==
    /\ mem_fresh
    /\ Len(strip_blank(mem_input)) > MEMORY_LIMIT
    /\ Len(memory) = MEMORY_LIMIT
    /\ mem_input # strip_blank(mem_input)

\* C25: a fetch that follows posts x1..xn returns exactly [x1..xn] in posting
\* order and leaves the notification directory empty (so a repeated fetch
\* returns the empty list)
C25_PostThenFetch ==
    last_call = "fetch" =>
        /\ notes = expected
        /\ DOMAIN notifications_dir = {}

\* C26: every returned file the poller drained (and so deleted) is on the
\* notification queue as a payload naming it
C26_DrainedIsQueued ==
    \A f \in drained :
        \E i \in DOMAIN poller_queue : poller_queue[i].returned_file = f

\* C27: execute never raises, and a failed exec returns a text that ends
\* with a diagnostic line
C27_ExecuteNeverRaises ==
    /\ exec_result.kind # "raised"
    /\ exec_result.failure # "none" =>
           /\ exec_result.kind = "returned"
           /\ exec_result.text # <<>>
           /\ exec_result.text[Len(exec_result.text)] \in Diagnostics

\* C28: after delete_history(u, s) the session's messages are gone, and a
\* user u that existed before the call still exists with the same memory
C28_DeleteKeepsUser ==
    (db_last.op = "delete_history" /\ db_last.existed) =>
        /\ <<db_last.user, db_last.session>> \notin db_conversations
        /\ db_last.user \in DOMAIN db_users
        /\ db_users[db_last.user] = db_last.memory

\* the roles of the last two messages of the log task c appends to
LastRoles(c) ==
    LET m == messages[TurnOf(St, c)]
    IN IF Len(m) < 2 THEN <<>> ELSE <<m[Len(m) - 1].role, m[Len(m)].role>>

\* C29: when the tool finishes before the speculative follow-up request,
\* the follow-up is cancelled and appends nothing, the tool result is
\* appended, and then a fresh request is issued whose reply is the one
\* assistant message after the tool message
C29_ToolWinsThenFreshReply ==
    \A c \in Ctx :
        (pc[c] = "tw_cancel" /\ mode[c] # "during" /\ follow_task[c] = "cancelled")
            ~> (pc[c] = "ask_nxt" /\ follow_task[c] = "none"
                /\ LastRoles(c)[2] = "tool")

\* C30: when the speculative follow-up finishes before the tool, its reply
\* is appended, the tool is awaited, and the next request is issued once
\* the tool result is appended: the log then ends assistant, tool and the
\* request for the next assistant message is out
C30_FollowupWinsThenToolThenNext ==
    \A c \in Ctx :
        (pc[c] = "fw_tool" /\ mode[c] # "during")
            ~> (pc[c] = "ask_nxt" /\ LastRoles(c) = <<"assistant", "tool">>)

\* what a message of the log holds: _add_tool_message is called with the
\* result of a tool or with "Unsupported tool: NAME", the other messages
\* hold text; no statement of the session appends the placeholder text
content_kind(m) ==
    IF m.role # "tool" THEN "text"
    ELSE IF m.name \in ToolNames \ tool_funcs THEN "unsupported"
    ELSE "result"

\* the number of placeholder tool messages in a log
placeholders(log) ==
    Cardinality({i \in DOMAIN log : content_kind(log[i]) = "placeholder"})

\* task c has launched a tool with its follow-up request and has not yet
\* appended the tool result
racing(c) ==
    /\ mode[c] # "during"
    /\ pc[c] \in {"lk_tool", "race", "tw_cancel", "fw_tool"}

\* C31: the log holds exactly one placeholder tool message while a tool and
\* its speculative follow-up request are under way, and none at any other
\* time
C31_OnePlaceholderWhileRacing ==
    \A c \in Ctx :
        placeholders(messages[TurnOf(St, c)]) = IF racing(c) THEN 1 ELSE 0

\* C32: when the session is idle neither the in-memory log nor the stored
\* history holds a placeholder tool message
C32_NoPlaceholderWhenIdle ==
    lg_state = "idle" =>
        /\ \A i \in DOMAIN lg_messages : lg_messages[i] # "placeholder"
        /\ \A i \in DOMAIN lg_history : lg_history[i] # "placeholder"

\* C33: for any interleaving of the calls on one shell there is at most one
\* shell process, and exactly one reader task while there is a process
C33_OneProcessOneReader ==
    /\ Cardinality(live_procs) <= 1
    /\ Cardinality(live_readers) <= 1
    /\ live_procs # {} => Cardinality(live_readers) = 1

\* task c has appended the result of the tool task it waited for and is
\* about to enter the lock of _await_tool_and_followup
result_appended(c) == pc[c] = "lk_gen" /\ awaiting[c] # None

\* C34: a tool execution contributes one tool-result message: no two tasks
\* have both appended the result of the same tool task
C34_OneResultPerTool ==
    \A c1, c2 \in Ctx :
        (c1 # c2 /\ result_appended(c1) /\ result_appended(c2))
            => awaiting[c1] # awaiting[c2]

\* C35: when the reply to the first call of an assistant message arrives
\* and the message carried a further call, that call is executed or
\* answered with a tool message (the depth cap permitting)
C35_NoCallDropped ==
    \A c \in Ctx : (pc[c] = "ask_nxt" /\ depth[c] + 1 < max_tool_call_depth) =>
        \A rest \in RestCalls \ {<<>>} : \A r \in Replies :
            r.tool_calls = <<>> =>
                LET k == TurnOf(St, c)
                    t == next_reply([St EXCEPT !.calls[c] = rest], c, r)
                IN \/ \E i \in (Len(messages[k]) + 1)..Len(t.messages[k]) :
                          /\ t.messages[k][i].role = "tool"
                          /\ t.messages[k][i].name = rest[1]
                   \/ t.exec_task[c] = "running" /\ t.current_tool_name = rest[1]

\* C36: with the persist policy off, no step of an acquire or a release
\* stops or removes the container that backs a key whose refcount is
\* greater than zero before the step and after it
C36_NoCrossSessionStop ==
    [][\A k \in Keys :
          (~persist_vms /\ counts[k] > 0 /\ counts'[k] > 0
           /\ container[ContainerOf(k)] = "running")
              => container'[ContainerOf(k)] = "running"]_vars

\* C37: when the start of the sandbox fails inside VMRegistry.acquire, the
\* step that raises takes back the increment of the refcount, and it leaves
\* no object of a sandbox that never started registered under the key
C37_FailedStartRestoresRegistry ==
    [][\A t \in Threads :
          (tpc[t] \in {"docker_start", "run"} /\ tpc'[t] = "idle")
              => /\ counts'[tkey[t]] = counts[tkey[t]] - 1
                 /\ (~vm_running[tvm[t]] /\ counts'[tkey[t]] = 0)
                        => vms'[tkey[t]] = 0]_vars

\* the notifications on the queue, which _flush_notifications appends to
\* the conversation log one message each
queued_notes == SelectSeq(poller_queue, LAMBDA q : q.returned_file = "")

\* C38: a notification is appended to the conversation log at most once:
\* the queue never carries more notifications than were submitted
C38_NotificationAtMostOnce == Len(queued_notes) <= posts_made

\* C39: every message queued to a helper is eventually taken up by the
\* helper's worker, which is what resolves the caller's future
C39_QueuedMessageAnswered ==
    \A n \in AgentNames : (inbox[n] # <<>>) ~> (inbox[n] = <<>>)

\* C40: every execute_stream call eventually ends, also when the shell
\* process exits before it has printed the call's sentinel
C40_StreamTerminates ==
    \A k \in ShellCalls : (xpc[k] = "reading") ~> (xpc[k] = "done")

====
